---- MODULE Spec2Model ----
(***************************************************************************)
(* Model of pyolib/_core.py: the broadcasting arithmetic of PyoObject, the *)
(* portamento scheduler behind PyoObject.set and the Mix reducer.          *)
(*                                                                         *)
(* Python objects live in `heap` (index = identity) and the engine's       *)
(* stream objects (the *_base objects) live in `streams`.  An operand of   *)
(* a stream operation is an item <<tag, n>>: <<"n", v>> a number,          *)
(* <<"s", id>> a stream, <<"o", id>> a PyoObject.  An argument of a        *)
(* Python-level call is a record [k, v]: k = "num" (v holds one item),     *)
(* "list" (v holds the items), "obj" (v holds one <<"o", id>>),            *)
(* "stream" (v holds one <<"s", id>>) or "none".                           *)
(***************************************************************************)
EXTENDS Integers, Sequences, FiniteSets, TLC

VARIABLES heap, streams, call, ret, nset,
          attrs, target_dict, callback_dict, signal_dict, ramps, invoked,
          stopped, pend,
          server, checked, tables, tlog, out

\* The attributes driven by set(): attrs[k] is what getattr returns for
\* key k (a bundle and an attribute name), the three dictionaries are the
\* bundle's _target_dict, _callback_dict and _signal_dict restricted to k,
\* ramps holds every VarPort created by set() and invoked[r] counts the
\* calls of the callback given to the set() that created ramp r.
\* stopped holds the bundles whose own streams stop() has stopped, and
\* pend is the call of set() that has started and not yet returned, with
\* the statement it has reached, when set() is taken statement by
\* statement.
rampVars == <<attrs, target_dict, callback_dict, signal_dict, ramps, invoked,
              stopped, pend>>

\* The audio server: "none" before Server() is called, "created" once it
\* exists and "booted" after boot().
\* checked records the last direct call of pyoArgsAssert: the class of the
\* receiving object, the format, the arguments and the error text.
\* tables holds the PyoTableObject bundles, tlog the effects of the last
\* table operation in the order they happened and out the last line
\* printed on the standard output.
auxVars == <<server, checked, tables, tlog, out>>

vars == <<heap, streams, call, ret, nset, rampVars, auxVars>>

\* ---------------------------------------------------------------- bounds
MaxLen == 3
MaxHeap == 3
MaxSets == 1
MaxVoices == 4
MaxRamps == 2
MaxTraceOps == 2
MaxArgs == 2
MaxSize == 3
MaxTableOps == 1

\* ------------------------------------------------------------- arguments
Num(v) == [k |-> "num", v |-> <<<<"n", v>>>>]
Lst(s) == [k |-> "list", v |-> s]
Obj(o) == [k |-> "obj", v |-> <<<<"o", o>>>>]
Strm(s) == [k |-> "stream", v |-> <<<<"s", s>>>>]
None == [k |-> "none", v |-> <<>>]
Bool(b) == [k |-> "bool", v |-> <<<<"n", IF b THEN 1 ELSE 0>>>>]
Str(n) == [k |-> "str", v |-> <<<<"n", n>>>>]
Raise(pos, expected) == [k |-> "raise", v |-> <<<<"n", pos>>>>, expected |-> expected]

\* isinstance(x, PyoObject)
IsPyo(x) == x.k = "obj"

\* len(self): number of streams of heap object o
ObjLen(h, o) == Len(h[o].base_objs)

\* convertArgsToLists for one argument: a PyoObjectBase or a list is kept,
\* anything else becomes a one-element list.  The result is the sequence
\* of the elements that indexing the converted value yields.
convertArgsToLists(h, x) ==
  IF IsPyo(x)
  THEN [i \in 1..ObjLen(h, x.v[1][2]) |-> <<"s", h[x.v[1][2]].base_objs[i]>>]
  ELSE IF x.k = "list" THEN x.v
  ELSE <<x.v[1]>>

\* wrap(arg, i): arg[i % len(arg)]; a PyoObjectBase element yields its
\* first stream.
wrap(h, arg, i) ==
  LET x == arg[(i % Len(arg)) + 1]
  IN IF x[1] = "o" THEN <<"s", h[x[2]].base_objs[1]>> ELSE x

\* pyoArgsAssert, one argument: the expected category when the type of x
\* does not match format character f, "" when it does.
ArgExpected(f, x) ==
  CASE f = "O" -> IF x.k \in {"obj", "stream", "list", "num", "float"} THEN ""
                  ELSE "float or PyoObject"
    [] f = "o" -> IF x.k \in {"obj", "stream", "list"} THEN ""
                  ELSE "PyoObject"
    [] f = "T" -> IF x.k \in {"table", "float", "list"} THEN ""
                  ELSE "float or PyoTableObject"
    [] f = "t" -> IF x.k \in {"table", "list"} THEN ""
                  ELSE "PyoTableObject"
    [] f = "m" -> IF x.k \in {"matrix", "list"} THEN ""
                  ELSE "PyoMatrixObject"
    [] f = "p" -> IF x.k \in {"pv", "list"} THEN ""
                  ELSE "PyoPVObject"
    [] f = "n" -> IF x.k \in {"list", "num", "float"} THEN ""
                  ELSE "any number"
    [] f = "N" -> IF x.k \in {"num", "float"} THEN ""
                  ELSE "any number - list not allowed"
    [] f = "f" -> IF x.k \in {"list", "float"} THEN "" ELSE "float"
    [] f = "F" -> IF x.k = "float" THEN "" ELSE "float - list not allowed"
    [] f = "i" -> IF x.k \in {"list", "num"} THEN "" ELSE "integer"
    [] f = "I" -> IF x.k = "num" THEN ""
                  ELSE "integer - list not allowed"
    [] f = "s" -> IF x.k \in {"list", "str"} THEN "" ELSE "string"
    [] f = "S" -> IF x.k = "str" THEN ""
                  ELSE "string - list not allowed"
    [] f = "b" -> IF x.k \in {"bool", "list", "num"} THEN "" ELSE "boolean"
    [] f = "B" -> IF x.k \in {"bool", "num"} THEN ""
                  ELSE "boolean - list not allowed"
    [] f = "l" -> IF x.k = "list" THEN "" ELSE "list"
    [] f = "L" -> IF x.k \in {"list", "none"} THEN "" ELSE "list or None"
    [] f = "u" -> IF x.k = "tuple" THEN "" ELSE "tuple"
    [] f = "x" -> IF x.k \in {"list", "tuple"} THEN "" ELSE "list or tuple"
    [] f = "c" -> IF x.k \in {"callable", "list", "tuple", "none"} THEN ""
                  ELSE "callable"
    [] f = "C" -> IF x.k \in {"callable", "none"} THEN ""
                  ELSE "callable - list not allowed"
    [] OTHER -> ""

\* pyoArgsAssert without the `break`: the last offending argument wins.
pyoArgsAssertNoBreak(format, args) ==
  LET bad == {i \in 1..Len(args) : ArgExpected(format[i], args[i]) # ""}
  IN IF bad = {} THEN None
     ELSE LET i == CHOOSE j \in bad : \A m \in bad : j >= m
          IN Raise(i - 1, ArgExpected(format[i], args[i]))

\* pyoArgsAssert: None when every argument matches its format character,
\* otherwise the error for the first argument that does not.
pyoArgsAssert(format, args) ==
  LET bad == {i \in 1..Len(args) : ArgExpected(format[i], args[i]) # ""}
  IN IF bad = {} THEN None
     ELSE LET i == CHOOSE j \in bad : \A m \in bad : j <= m
          IN Raise(i - 1, ArgExpected(format[i], args[i]))

\* The text of the PyoArgumentTypeError of pyoArgsAssert called for an
\* object of class `name`: position, class name, expected category and
\* type(arg); <<>> when nothing is raised.
ErrorMessage(name, format, args) ==
  LET e == pyoArgsAssert(format, args)
  IN IF e = None THEN <<>>
     ELSE <<[pos |-> e.v[1][2], name |-> name, expected |-> e.expected,
             got |-> args[e.v[1][2] + 1].k]>>

Max2(a, b) == IF a >= b THEN a ELSE b
Max3(a, b, c) == Max2(a, Max2(b, c))

\* ---------------------------------------------------------------- engine
\* A stream object created by the engine with default mul=1, add=0.
StreamRec(op, l, r) ==
  [op |-> op, l |-> l, r |-> r,
   mul |-> <<"n", 1>>, add |-> <<"n", 0>>,
   mulmode |-> "mul", addmode |-> "add", ins |-> <<>>]

\* PyoObject.__init__: fresh trace, mul, add, op_duplicate and zeros.
PyoObjectInit(cls, base, mul, add) ==
  [cls |-> cls, base_objs |-> base, keep_trace |-> <<>>,
   mul |-> mul, add |-> add, op_duplicate |-> 1, zeros |-> 0]

\* The list comprehension of an operator: allocate one stream per record.
\* Returns the state and the items of the new streams.
AllocStreams(st, recs) ==
  [heap |-> st.heap, streams |-> st.streams \o recs,
   ret |-> [i \in 1..Len(recs) |-> <<"s", Len(st.streams) + i>>]]

\* Dummy.__init__ appending every element as it is: a Dummy element stays
\* a single entry.
DummyNoFlatten(h, objs_list) == [i \in DOMAIN objs_list |-> objs_list[i][2]]

\* Dummy.__init__: streams of Dummy elements are spliced in, other
\* elements are appended.
RECURSIVE DummyFlatten(_, _)
DummyFlatten(h, objs_list) ==
  IF objs_list = <<>> THEN <<>>
  ELSE LET x == Head(objs_list)
       IN (IF x[1] = "o" /\ h[x[2]].cls = "Dummy"
           THEN h[x[2]].base_objs
           ELSE <<x[2]>>) \o DummyFlatten(h, Tail(objs_list))

Dummy(st, objs_list) ==
  [heap |-> Append(st.heap,
                   PyoObjectInit("Dummy", DummyFlatten(st.heap, objs_list),
                                 Num(1), Num(0))),
   streams |-> st.streams,
   ret |-> Len(st.heap) + 1]

\* self._keep_trace = [d]: the trace holds the last composite only.
KeepTraceLastOnly(st, self, d) ==
  [st EXCEPT !.heap[self].keep_trace = <<d>>]

\* self._keep_trace.append(d)
KeepTrace(st, self, d) ==
  [st EXCEPT !.heap[self].keep_trace = Append(@, d)]

\* Sig.__init__ with the default mul=1, add=0: one Sig_base per element of
\* the longest argument.
Sig(st, value) ==
  LET vs == convertArgsToLists(st.heap, value)
      ms == convertArgsToLists(st.heap, Num(1))
      as == convertArgsToLists(st.heap, Num(0))
      lmax == Max3(Len(vs), Len(ms), Len(as))
      recs == [i \in 1..lmax |->
                 [StreamRec("sig", wrap(st.heap, vs, i - 1), <<"n", 0>>)
                    EXCEPT !.mul = wrap(st.heap, ms, i - 1),
                           !.add = wrap(st.heap, as, i - 1)]]
  IN [heap |-> Append(st.heap,
                      PyoObjectInit("Sig",
                                    [i \in 1..lmax |-> Len(st.streams) + i],
                                    Num(1), Num(0))),
      streams |-> st.streams \o recs,
      ret |-> Len(st.heap) + 1]

\* ------------------------------------------------- arithmetic operators
\* self._base_objs as a list argument of wrap
BaseItems(h, self) ==
  [i \in 1..ObjLen(h, self) |-> <<"s", h[self].base_objs[i]>>]

\* PyoObject.__add__
RECURSIVE __add__(_, _, _)
__add__(st, self, x) ==
  LET me == st.heap[self]
      xs == convertArgsToLists(st.heap, x)
      lmax == Len(xs)
      d == IF ObjLen(st.heap, self) >= lmax
           THEN LET a == AllocStreams(st,
                      [i \in 1..ObjLen(st.heap, self) |->
                         StreamRec("add", <<"s", me.base_objs[i]>>,
                                   wrap(st.heap, xs,
                                        (i - 1) \div me.op_duplicate))])
                IN Dummy(a, a.ret)
           ELSE IF IsPyo(x)
           THEN __add__(st, x.v[1][2], Obj(self))
           ELSE LET a == AllocStreams(st,
                      [i \in 1..lmax |->
                         StreamRec("add",
                                   wrap(st.heap, BaseItems(st.heap, self),
                                        i - 1),
                                   xs[i])])
                IN Dummy(a, a.ret)
  IN KeepTrace(d, self, d.ret)

\* PyoObject.__radd__
__radd__(st, self, x) ==
  LET me == st.heap[self]
      xs == convertArgsToLists(st.heap, x)
      lmax == Len(xs)
      a == IF ObjLen(st.heap, self) >= lmax
           THEN AllocStreams(st,
                      [i \in 1..ObjLen(st.heap, self) |->
                         StreamRec("add", <<"s", me.base_objs[i]>>,
                                   wrap(st.heap, xs,
                                        (i - 1) \div me.op_duplicate))])
           ELSE AllocStreams(st,
                      [i \in 1..lmax |->
                         StreamRec("add",
                                   wrap(st.heap, BaseItems(st.heap, self),
                                        i - 1),
                                   xs[i])])
      d == Dummy(a, a.ret)
  IN KeepTrace(d, self, d.ret)

\* __sub__ iterating over self's streams whatever the length of x.
__sub__SelfOnly(st, self, x) ==
  LET me == st.heap[self]
      xs == convertArgsToLists(st.heap, x)
      a == AllocStreams(st,
                      [i \in 1..ObjLen(st.heap, self) |->
                         StreamRec("sub", <<"s", me.base_objs[i]>>,
                                   wrap(st.heap, xs,
                                        (i - 1) \div me.op_duplicate))])
      d == Dummy(a, a.ret)
  IN KeepTrace(d, self, d.ret)

\* PyoObject.__sub__
__sub__(st, self, x) ==
  LET me == st.heap[self]
      xs == convertArgsToLists(st.heap, x)
      lmax == Len(xs)
      a == IF ObjLen(st.heap, self) >= lmax
           THEN AllocStreams(st,
                      [i \in 1..ObjLen(st.heap, self) |->
                         StreamRec("sub", <<"s", me.base_objs[i]>>,
                                   wrap(st.heap, xs,
                                        (i - 1) \div me.op_duplicate))])
           ELSE IF IsPyo(x)
           THEN AllocStreams(st,
                      [i \in 1..lmax |->
                         StreamRec("sub",
                                   wrap(st.heap, BaseItems(st.heap, self),
                                        i - 1),
                                   wrap(st.heap, xs, i - 1))])
           ELSE AllocStreams(st,
                      [i \in 1..lmax |->
                         StreamRec("sub",
                                   wrap(st.heap, BaseItems(st.heap, self),
                                        i - 1),
                                   xs[i])])
      d == Dummy(a, a.ret)
  IN KeepTrace(d, self, d.ret)

\* PyoObject.__mul__
RECURSIVE __mul__(_, _, _)
__mul__(st, self, x) ==
  LET me == st.heap[self]
      xs == convertArgsToLists(st.heap, x)
      lmax == Len(xs)
      d == IF ObjLen(st.heap, self) >= lmax
           THEN LET a == AllocStreams(st,
                      [i \in 1..ObjLen(st.heap, self) |->
                         StreamRec("mul", <<"s", me.base_objs[i]>>,
                                   wrap(st.heap, xs,
                                        (i - 1) \div me.op_duplicate))])
                IN Dummy(a, a.ret)
           ELSE IF IsPyo(x)
           THEN __mul__(st, x.v[1][2], Obj(self))
           ELSE LET a == AllocStreams(st,
                      [i \in 1..lmax |->
                         StreamRec("mul",
                                   wrap(st.heap, BaseItems(st.heap, self),
                                        i - 1),
                                   xs[i])])
                IN Dummy(a, a.ret)
  IN KeepTrace(d, self, d.ret)

\* PyoObject.__rmul__
__rmul__(st, self, x) ==
  LET me == st.heap[self]
      xs == convertArgsToLists(st.heap, x)
      lmax == Len(xs)
      a == IF ObjLen(st.heap, self) >= lmax
           THEN AllocStreams(st,
                      [i \in 1..ObjLen(st.heap, self) |->
                         StreamRec("mul", <<"s", me.base_objs[i]>>,
                                   wrap(st.heap, xs,
                                        (i - 1) \div me.op_duplicate))])
           ELSE AllocStreams(st,
                      [i \in 1..lmax |->
                         StreamRec("mul",
                                   wrap(st.heap, BaseItems(st.heap, self),
                                        i - 1),
                                   xs[i])])
      d == Dummy(a, a.ret)
  IN KeepTrace(d, self, d.ret)

\* __div__ ignoring op_duplicate when it indexes x.
__div__NoDuplicate(st, self, x) ==
  LET me == st.heap[self]
      xs == convertArgsToLists(st.heap, x)
      lmax == Len(xs)
      a == IF ObjLen(st.heap, self) >= lmax
           THEN AllocStreams(st,
                      [i \in 1..ObjLen(st.heap, self) |->
                         StreamRec("div", <<"s", me.base_objs[i]>>,
                                   wrap(st.heap, xs, i - 1))])
           ELSE IF IsPyo(x)
           THEN AllocStreams(st,
                      [i \in 1..lmax |->
                         StreamRec("div",
                                   wrap(st.heap, BaseItems(st.heap, self),
                                        i - 1),
                                   wrap(st.heap, xs, i - 1))])
           ELSE AllocStreams(st,
                      [i \in 1..lmax |->
                         StreamRec("div",
                                   wrap(st.heap, BaseItems(st.heap, self),
                                        i - 1),
                                   xs[i])])
      d == Dummy(a, a.ret)
  IN KeepTrace(d, self, d.ret)

\* PyoObject.__div__ (also __truediv__)
__div__(st, self, x) ==
  LET me == st.heap[self]
      xs == convertArgsToLists(st.heap, x)
      lmax == Len(xs)
      a == IF ObjLen(st.heap, self) >= lmax
           THEN AllocStreams(st,
                      [i \in 1..ObjLen(st.heap, self) |->
                         StreamRec("div", <<"s", me.base_objs[i]>>,
                                   wrap(st.heap, xs,
                                        (i - 1) \div me.op_duplicate))])
           ELSE IF IsPyo(x)
           THEN AllocStreams(st,
                      [i \in 1..lmax |->
                         StreamRec("div",
                                   wrap(st.heap, BaseItems(st.heap, self),
                                        i - 1),
                                   wrap(st.heap, xs, i - 1))])
           ELSE AllocStreams(st,
                      [i \in 1..lmax |->
                         StreamRec("div",
                                   wrap(st.heap, BaseItems(st.heap, self),
                                        i - 1),
                                   xs[i])])
      d == Dummy(a, a.ret)
  IN KeepTrace(d, self, d.ret)

\* An item handed on as a Python-level argument.
ItemArg(it) == IF it[1] = "n" THEN Num(it[2])
               ELSE IF it[1] = "s" THEN Strm(it[2]) ELSE Obj(it[2])

\* Loop of __rsub__ over self._base_objs (self at least as long as x):
\* each operand is promoted to a Sig, the Sig is kept in self's trace and
\* `Sig - obj` (a one-stream Dummy) is collected in tmp.
RECURSIVE RsubLoopSelf(_, _, _, _, _)
RsubLoopSelf(st, self, xs, i, tmp) ==
  IF i > ObjLen(st.heap, self) THEN [st EXCEPT !.ret = tmp]
  ELSE LET sub_upsamp == Sig(st, ItemArg(wrap(st.heap, xs,
                               (i - 1) \div st.heap[self].op_duplicate)))
           kept == KeepTrace(sub_upsamp, self, sub_upsamp.ret)
           diff == __sub__(kept, sub_upsamp.ret,
                           Strm(st.heap[self].base_objs[i]))
       IN RsubLoopSelf(diff, self, xs, i + 1,
                       Append(tmp, <<"o", diff.ret>>))

\* Loop of __rsub__ over x (x longer than self).
RECURSIVE RsubLoopX(_, _, _, _, _)
RsubLoopX(st, self, xs, i, tmp) ==
  IF i > Len(xs) THEN [st EXCEPT !.ret = tmp]
  ELSE LET sub_upsamp == Sig(st, ItemArg(xs[i]))
           kept == KeepTrace(sub_upsamp, self, sub_upsamp.ret)
           diff == __sub__(kept, sub_upsamp.ret,
                           ItemArg(wrap(st.heap, BaseItems(st.heap, self),
                                        i - 1)))
       IN RsubLoopX(diff, self, xs, i + 1, Append(tmp, <<"o", diff.ret>>))

\* PyoObject.__rsub__
__rsub__(st, self, x) ==
  LET xs == convertArgsToLists(st.heap, x)
      lmax == Len(xs)
      t == IF ObjLen(st.heap, self) >= lmax
           THEN RsubLoopSelf(st, self, xs, 1, <<>>)
           ELSE RsubLoopX(st, self, xs, 1, <<>>)
      d == Dummy(t, t.ret)
  IN KeepTrace(d, self, d.ret)

\* Loops of __rdiv__, as those of __rsub__ with a division.
RECURSIVE RdivLoopSelf(_, _, _, _, _)
RdivLoopSelf(st, self, xs, i, tmp) ==
  IF i > ObjLen(st.heap, self) THEN [st EXCEPT !.ret = tmp]
  ELSE LET div_upsamp == Sig(st, ItemArg(wrap(st.heap, xs,
                               (i - 1) \div st.heap[self].op_duplicate)))
           kept == KeepTrace(div_upsamp, self, div_upsamp.ret)
           quot == __div__(kept, div_upsamp.ret,
                           Strm(st.heap[self].base_objs[i]))
       IN RdivLoopSelf(quot, self, xs, i + 1,
                       Append(tmp, <<"o", quot.ret>>))

RECURSIVE RdivLoopX(_, _, _, _, _)
RdivLoopX(st, self, xs, i, tmp) ==
  IF i > Len(xs) THEN [st EXCEPT !.ret = tmp]
  ELSE LET div_upsamp == Sig(st, ItemArg(xs[i]))
           kept == KeepTrace(div_upsamp, self, div_upsamp.ret)
           quot == __div__(kept, div_upsamp.ret,
                           ItemArg(wrap(st.heap, BaseItems(st.heap, self),
                                        i - 1)))
       IN RdivLoopX(quot, self, xs, i + 1, Append(tmp, <<"o", quot.ret>>))

\* PyoObject.__rdiv__ (also __rtruediv__)
__rdiv__(st, self, x) ==
  LET xs == convertArgsToLists(st.heap, x)
      lmax == Len(xs)
      t == IF ObjLen(st.heap, self) >= lmax
           THEN RdivLoopSelf(st, self, xs, 1, <<>>)
           ELSE RdivLoopX(st, self, xs, 1, <<>>)
      d == Dummy(t, t.ret)
  IN KeepTrace(d, self, d.ret)

\* __neg__ computing self - 0.
__neg__Swapped(st, self) ==
  LET z == IF st.heap[self].zeros = 0
           THEN LET g == Sig(st, Num(0))
                IN [g EXCEPT !.heap[self].zeros = g.ret]
           ELSE st
  IN __sub__(z, self, Obj(z.heap[self].zeros))

\* PyoObject.__neg__: 0 - self with a memoized Sig(0).
__neg__(st, self) ==
  LET z == IF st.heap[self].zeros = 0
           THEN LET g == Sig(st, Num(0))
                IN [g EXCEPT !.heap[self].zeros = g.ret]
           ELSE st
  IN __sub__(z, z.heap[self].zeros, Obj(self))

\* ------------------------------------------------------------ the system
\* Lengths and duplication factors of a constructed source bundle.
Shapes == {<<n, d>> \in (1..MaxLen) \X {1, 2} : n % d = 0}

\* Raw sample of source stream i.
Raw(i) == 2 * i + 1

\* Two source bundles constructed on a booted server, A then B.
Constructed(sa, sb) ==
  [streams |-> [i \in 1..(sa[1] + sb[1]) |->
                  StreamRec("src", <<"n", Raw(i)>>, <<"n", 0>>)],
   heap |-> << [PyoObjectInit("Src", [i \in 1..sa[1] |-> i],
                              Num(1), Num(0))
                  EXCEPT !.op_duplicate = sa[2]],
               [PyoObjectInit("Src", [i \in 1..sb[1] |-> sa[1] + i],
                              Num(1), Num(0))
                  EXCEPT !.op_duplicate = sb[2]] >>,
   ret |-> 0]

NoCall == [op |-> "init", self |-> 0, x |-> None, n |-> 0, y |-> None,
           z |-> None]

\* Keys 1 and 2 are two attributes of a PyoObject, key 3 is an attribute of
\* a PyoPVObject.
Keys == {1, 2, 3}
IsPVKey(k) == k = 3

\* Absent dictionary entries.
NoRamp == 0
NoEntry == 0 - 1
NoCallback == 0

\* No call of set() is in progress.
NoPend == [pc |-> 0, key |-> 0, value |-> None, port |-> None,
           callback |-> FALSE, init |-> None, new |-> 0]

\* No set() has been called: the attributes hold the literals given to the
\* constructors and the dictionaries are empty.
\* A created and booted server.
NoCheck == [name |-> "", format |-> <<>>, args |-> <<>>, msg |-> <<>>]

AuxInit ==
  /\ server = "booted"
  /\ checked = NoCheck
  /\ tables = <<>>
  /\ tlog = <<>>
  /\ out = ""

RampInit ==
  /\ attrs = [k \in Keys |-> IF k = 2 THEN Lst(<<<<"n", 0>>, <<"n", 4>>>>)
                              ELSE Num(0)]
  /\ target_dict = [k \in Keys |-> None]
  /\ callback_dict = [k \in Keys |-> NoEntry]
  /\ signal_dict = [k \in Keys |-> NoRamp]
  /\ ramps = <<>>
  /\ invoked = <<>>
  /\ stopped = {}
  /\ pend = NoPend

Init ==
  \E sa \in Shapes, sb \in {sh \in Shapes : sh[1] <= 3} :
    /\ heap = Constructed(sa, sb).heap
    /\ streams = Constructed(sa, sb).streams
    /\ call = NoCall
    /\ ret = None
    /\ nset = 0
    /\ RampInit
    /\ AuxInit

ListOf(n) == Lst([i \in 1..n |-> <<"n", 10 + i>>])

\* Operands of the operators: a number, lists of numbers, a one-element
\* list holding a bundle, a bundle.
Scalars == {Num(2)}
Lists(h) == {ListOf(n) : n \in 1..MaxLen}
              \cup {Lst(<<<<"o", o>>>>) : o \in DOMAIN h}
Bundles(h) == {Obj(o) : o \in DOMAIN h}

Now == [heap |-> heap, streams |-> streams, ret |-> 0]

Commit(op, self, x, st) ==
  /\ heap' = st.heap
  /\ streams' = st.streams
  /\ call' = [NoCall EXCEPT !.op = op, !.self = self, !.x = x]
  /\ ret' = Obj(st.ret)
  /\ UNCHANGED <<nset, rampVars, auxVars>>

\* As Commit, for an operation whose result is any Python value.
CommitVal(op, self, x, st) ==
  /\ heap' = st.heap
  /\ streams' = st.streams
  /\ call' = [NoCall EXCEPT !.op = op, !.self = self, !.x = x]
  /\ ret' = st.ret
  /\ UNCHANGED <<rampVars, auxVars>>

Room == Len(heap) < MaxHeap

Add == \E self \in DOMAIN heap, x \in Scalars \cup Lists(heap) \cup Bundles(heap) :
         Room /\ Commit("add", self, x, __add__(Now, self, x))
Sub == \E self \in DOMAIN heap, x \in Scalars \cup Lists(heap) \cup Bundles(heap) :
         Room /\ Commit("sub", self, x, __sub__(Now, self, x))
Mul == \E self \in DOMAIN heap, x \in Scalars \cup Lists(heap) \cup Bundles(heap) :
         Room /\ Commit("mul", self, x, __mul__(Now, self, x))
Div == \E self \in DOMAIN heap, x \in Scalars \cup Lists(heap) \cup Bundles(heap) :
         Room /\ Commit("div", self, x, __div__(Now, self, x))
RAdd == \E self \in DOMAIN heap, x \in Scalars \cup Lists(heap) :
          Room /\ Commit("radd", self, x, __radd__(Now, self, x))
RSub == \E self \in DOMAIN heap, x \in Scalars \cup Lists(heap) :
          Room /\ Commit("rsub", self, x, __rsub__(Now, self, x))
RMul == \E self \in DOMAIN heap, x \in Scalars \cup Lists(heap) :
          Room /\ Commit("rmul", self, x, __rmul__(Now, self, x))
RDiv == \E self \in DOMAIN heap, x \in Scalars \cup Lists(heap) :
          Room /\ Commit("rdiv", self, x, __rdiv__(Now, self, x))

Next == Add \/ Sub \/ Mul \/ Div \/ RAdd \/ RSub \/ RMul \/ RDiv

Spec == Init /\ [][Next]_vars

\* Repeated unary negation, on source bundles and on earlier results.
MaxNegHeap == 5

Neg == \E self \in DOMAIN heap :
         /\ Len(heap) < MaxNegHeap
         /\ Commit("neg", self, None, __neg__(Now, self))

NextNeg == Neg

SpecNeg == Init /\ [][NextNeg]_vars

\* ----------------------------------------------------------- comparisons
\* Compare.__init__: one comparison stream per element of the longer of
\* input and comp, paired by wrap.
Compare(st, input, comp, mode) ==
  LET is == BaseItems(st.heap, input)
      cs == convertArgsToLists(st.heap, comp)
      lmax == Max2(Len(is), Len(cs))
      recs == [i \in 1..lmax |->
                 StreamRec(mode, wrap(st.heap, is, i - 1),
                           wrap(st.heap, cs, i - 1))]
  IN [heap |-> Append(st.heap,
                      PyoObjectInit("Compare",
                                    [i \in 1..lmax |-> Len(st.streams) + i],
                                    Num(1), Num(0))),
      streams |-> st.streams \o recs,
      ret |-> Len(st.heap) + 1]

\* PyoObject.__do_comp__
__do_comp__(st, self, comp, mode, default) ==
  IF comp = None THEN [st EXCEPT !.ret = Bool(default)]
  ELSE LET c == Compare(st, self, comp, mode)
       IN [c EXCEPT !.ret = Obj(c.ret)]

__lt__(st, self, x) == __do_comp__(st, self, x, "<", FALSE)
__le__(st, self, x) == __do_comp__(st, self, x, "<=", FALSE)
__eq__(st, self, x) == __do_comp__(st, self, x, "==", FALSE)
\* __ne__ without its default=True.
__ne__NoDefault(st, self, x) == __do_comp__(st, self, x, "!=", FALSE)
__ne__(st, self, x) == __do_comp__(st, self, x, "!=", TRUE)
__gt__(st, self, x) == __do_comp__(st, self, x, ">", FALSE)
__ge__(st, self, x) == __do_comp__(st, self, x, ">=", FALSE)

Comps(h) == {None} \cup Scalars \cup Bundles(h)

Lt == \E self \in DOMAIN heap, x \in Comps(heap) :
        /\ x # None => Room
        /\ CommitVal("lt", self, x, __lt__(Now, self, x))
        /\ UNCHANGED nset
Le == \E self \in DOMAIN heap, x \in Comps(heap) :
        /\ x # None => Room
        /\ CommitVal("le", self, x, __le__(Now, self, x))
        /\ UNCHANGED nset
Eq == \E self \in DOMAIN heap, x \in Comps(heap) :
        /\ x # None => Room
        /\ CommitVal("eq", self, x, __eq__(Now, self, x))
        /\ UNCHANGED nset
Ne == \E self \in DOMAIN heap, x \in Comps(heap) :
        /\ x # None => Room
        /\ CommitVal("ne", self, x, __ne__(Now, self, x))
        /\ UNCHANGED nset
Gt == \E self \in DOMAIN heap, x \in Comps(heap) :
        /\ x # None => Room
        /\ CommitVal("gt", self, x, __gt__(Now, self, x))
        /\ UNCHANGED nset
Ge == \E self \in DOMAIN heap, x \in Comps(heap) :
        /\ x # None => Room
        /\ CommitVal("ge", self, x, __ge__(Now, self, x))
        /\ UNCHANGED nset

\* A bundle of any shape and a bundle of one stream, constructed in order.
InitComp ==
  \E sa \in Shapes :
    /\ heap = Constructed(sa, <<1, 1>>).heap
    /\ streams = Constructed(sa, <<1, 1>>).streams
    /\ call = NoCall
    /\ ret = None
    /\ nset = 0
    /\ RampInit
    /\ AuxInit

NextComp == Lt \/ Le \/ Eq \/ Ne \/ Gt \/ Ge

\* The comparisons do not look at the streams: bundles of one or two
\* streams are compared.
InitCompare ==
  \E sa \in {sh \in Shapes : sh[1] <= 2} :
    /\ heap = Constructed(sa, <<1, 1>>).heap
    /\ streams = Constructed(sa, <<1, 1>>).streams
    /\ call = NoCall
    /\ ret = None
    /\ nset = 0
    /\ RampInit
    /\ AuxInit

SpecComp == InitCompare /\ [][NextComp]_vars

\* ---------------------------------------------------- in-place operators
\* The list comprehension of setMul/setAdd/setSub/setDiv: every stream of
\* self receives wrap(x, i // op_duplicate) as the factor `field`.
SetFactor(st, self, xs, field, mode) ==
  LET me == st.heap[self]
      Last(sid) == CHOOSE i \in 1..Len(me.base_objs) :
                     /\ me.base_objs[i] = sid
                     /\ \A j \in 1..Len(me.base_objs) :
                          me.base_objs[j] = sid => j <= i
      Val(sid) == wrap(st.heap, xs, (Last(sid) - 1) \div me.op_duplicate)
  IN [sid \in DOMAIN st.streams |->
        IF \E i \in 1..Len(me.base_objs) : me.base_objs[i] = sid
        THEN IF field = "mul"
             THEN [st.streams[sid] EXCEPT !.mul = Val(sid), !.mulmode = mode]
             ELSE [st.streams[sid] EXCEPT !.add = Val(sid), !.addmode = mode]
        ELSE st.streams[sid]]

\* PyoObject.setMul
setMul(st, self, x) ==
  LET err == pyoArgsAssert(<<"O">>, <<x>>)
      s1 == [st EXCEPT !.heap[self].mul = x]
      xs == convertArgsToLists(s1.heap, x)
  IN IF err # None THEN [st EXCEPT !.ret = err]
     ELSE IF Len(xs) = 0 THEN [s1 EXCEPT !.ret = Raise(0, "ZeroDivisionError")]
     ELSE [s1 EXCEPT !.streams = SetFactor(s1, self, xs, "mul", "mul"),
                     !.ret = None]

\* PyoObject.setAdd
setAdd(st, self, x) ==
  LET err == pyoArgsAssert(<<"O">>, <<x>>)
      s1 == [st EXCEPT !.heap[self].add = x]
      xs == convertArgsToLists(s1.heap, x)
  IN IF err # None THEN [st EXCEPT !.ret = err]
     ELSE IF Len(xs) = 0 THEN [s1 EXCEPT !.ret = Raise(0, "ZeroDivisionError")]
     ELSE [s1 EXCEPT !.streams = SetFactor(s1, self, xs, "add", "add"),
                     !.ret = None]

\* PyoObject.setSub
setSub(st, self, x) ==
  LET err == pyoArgsAssert(<<"O">>, <<x>>)
      s1 == [st EXCEPT !.heap[self].add = x]
      xs == convertArgsToLists(s1.heap, x)
  IN IF err # None THEN [st EXCEPT !.ret = err]
     ELSE IF Len(xs) = 0 THEN [s1 EXCEPT !.ret = Raise(0, "ZeroDivisionError")]
     ELSE [s1 EXCEPT !.streams = SetFactor(s1, self, xs, "add", "sub"),
                     !.ret = None]

\* PyoObject.setDiv
setDiv(st, self, x) ==
  LET err == pyoArgsAssert(<<"O">>, <<x>>)
      s1 == [st EXCEPT !.heap[self].mul = x]
      xs == convertArgsToLists(s1.heap, x)
  IN IF err # None THEN [st EXCEPT !.ret = err]
     ELSE IF Len(xs) = 0 THEN [s1 EXCEPT !.ret = Raise(0, "ZeroDivisionError")]
     ELSE [s1 EXCEPT !.streams = SetFactor(s1, self, xs, "mul", "div"),
                     !.ret = None]

\* `return self` after a setter that did not raise.
ReturnSelf(r, self) == IF r.ret.k = "raise" THEN r ELSE [r EXCEPT !.ret = Obj(self)]

\* __iadd__ going through __add__, as an out-of-place operator would.
__iadd__Composite(st, self, x) ==
  LET d == __add__(st, self, x) IN [d EXCEPT !.ret = Obj(d.ret)]

__iadd__(st, self, x) == ReturnSelf(setAdd(st, self, x), self)
__isub__(st, self, x) == ReturnSelf(setSub(st, self, x), self)
__imul__(st, self, x) == ReturnSelf(setMul(st, self, x), self)
__idiv__(st, self, x) == ReturnSelf(setDiv(st, self, x), self)

NumberLists == {ListOf(n) : n \in 1..MaxLen}

IAdd == \E self \in DOMAIN heap, x \in Scalars \cup NumberLists \cup Bundles(heap) :
          /\ nset < MaxSets
          /\ CommitVal("iadd", self, x, __iadd__(Now, self, x))
          /\ nset' = nset + 1
ISub == \E self \in DOMAIN heap, x \in Scalars \cup NumberLists \cup Bundles(heap) :
          /\ nset < MaxSets
          /\ CommitVal("isub", self, x, __isub__(Now, self, x))
          /\ nset' = nset + 1
IMul == \E self \in DOMAIN heap, x \in Scalars \cup NumberLists \cup Bundles(heap) :
          /\ nset < MaxSets
          /\ CommitVal("imul", self, x, __imul__(Now, self, x))
          /\ nset' = nset + 1
IDiv == \E self \in DOMAIN heap, x \in Scalars \cup NumberLists \cup Bundles(heap) :
          /\ nset < MaxSets
          /\ CommitVal("idiv", self, x, __idiv__(Now, self, x))
          /\ nset' = nset + 1

\* The two source bundles, the first of which may already have produced
\* the composite a * 2.
InitInPlace ==
  \E sa \in Shapes, sb \in Shapes, traced \in BOOLEAN :
    LET st == IF traced THEN __mul__(Constructed(sa, sb), 1, Num(2))
              ELSE Constructed(sa, sb)
    IN /\ heap = st.heap
       /\ streams = st.streams
       /\ call = NoCall
       /\ ret = None
       /\ nset = 0
       /\ RampInit
       /\ AuxInit

NextInPlace == IAdd \/ ISub \/ IMul \/ IDiv

SpecInPlace == InitInPlace /\ [][NextInPlace]_vars

\* ------------------------------------------------------------------- Mix
\* The distribution loop of Mix.__init__.
RECURSIVE MixLoop(_, _, _, _, _)
MixLoop(input_objs, num, voices, i, sub_lists) ==
  IF i >= num THEN sub_lists
  ELSE MixLoop(input_objs, num, voices, i + 1,
               [sub_lists EXCEPT ![(i % voices) + 1] =
                  Append(@, input_objs[(i % Len(input_objs)) + 1])])

\* getBaseObjects of every bundle of a list, concatenated.
RECURSIVE FlattenInputs(_, _)
FlattenInputs(h, l) ==
  IF l = <<>> THEN <<>>
  ELSE h[Head(l)[2]].base_objs \o FlattenInputs(h, Tail(l))

\* MixNum that never goes beyond the inputs.
MixNumNoWrap(voices, input_len, lmax) ==
  IF voices < 1 THEN 1 ELSE input_len

\* The number of accumulations of Mix.__init__.
MixNum(voices, input_len, lmax) ==
  IF voices < 1 THEN 1
  ELSE IF voices > input_len /\ voices > lmax THEN voices
  ELSE IF lmax > input_len THEN lmax
  ELSE input_len

\* Mix.__init__
Mix(st, input, voices, mul, add) ==
  LET err == pyoArgsAssert(<<"o", "I", "O", "O">>,
                           <<input, Num(voices), mul, add>>)
      ms == convertArgsToLists(st.heap, mul)
      as == convertArgsToLists(st.heap, add)
      lmax == Max2(Len(ms), Len(as))
      input_objs == IF input.k = "list" THEN FlattenInputs(st.heap, input.v)
                    ELSE st.heap[input.v[1][2]].base_objs
      input_len == Len(input_objs)
      vcs == IF voices < 1 THEN 1 ELSE voices
      num == MixNum(voices, input_len, lmax)
      sub_lists == MixLoop(input_objs, num, vcs, 0, [i \in 1..vcs |-> <<>>])
      recs == [i \in 1..vcs |->
                 [StreamRec("mix", <<"n", 0>>, <<"n", 0>>)
                    EXCEPT !.ins = sub_lists[i],
                           !.mul = wrap(st.heap, ms, i - 1),
                           !.add = wrap(st.heap, as, i - 1)]]
  IN IF err # None THEN [st EXCEPT !.ret = err]
     ELSE [heap |-> Append(st.heap,
                           PyoObjectInit("Mix",
                                         [i \in 1..vcs |-> Len(st.streams) + i],
                                         mul, add)),
           streams |-> st.streams \o recs,
           ret |-> Obj(Len(st.heap) + 1)]

MixInputs(h) == Bundles(h)
                  \cup {Lst(<<<<"o", a>>, <<"o", b>>>>) : a, b \in DOMAIN h}

MixFactors == {<<Num(1), Num(0)>>, <<ListOf(MaxLen), Num(0)>>,
               <<Num(1), ListOf(MaxLen)>>}

MixCall ==
  \E input \in MixInputs(heap), voices \in 0..MaxVoices, f \in MixFactors :
    LET st == Mix(Now, input, voices, f[1], f[2])
    IN /\ Room
       /\ heap' = st.heap
       /\ streams' = st.streams
       /\ call' = [NoCall EXCEPT !.op = "mix", !.x = input, !.n = voices,
                                 !.y = f[1], !.z = f[2]]
       /\ ret' = st.ret
       /\ UNCHANGED <<nset, rampVars, auxVars>>

NextMix == MixCall

\* A bundle of any shape and a bundle of one or two streams.
InitMix ==
  \E sa \in Shapes, sb \in {sh \in Shapes : sh[1] <= 2} :
    /\ heap = Constructed(sa, sb).heap
    /\ streams = Constructed(sa, sb).streams
    /\ call = NoCall
    /\ ret = None
    /\ nset = 0
    /\ RampInit
    /\ AuxInit

SpecMix == InitMix /\ [][NextMix]_vars

\* ------------------------------------------------------ portamento ramps
\* The state the ramp operations work on.
RampNow == [attrs |-> attrs, target_dict |-> target_dict,
            callback_dict |-> callback_dict, signal_dict |-> signal_dict,
            ramps |-> ramps, invoked |-> invoked, raised |-> FALSE,
            error |-> "KeyError"]

RampRef(r) == [k |-> "ramp", v |-> <<<<"o", r>>>>]

\* isinstance(x, VarPort)
IsVarPort(x) == x.k = "ramp"

Numbers(items) == [i \in 1..Len(items) |-> items[i][2]]

\* What a callback given to set() does when it is called: it returns, it
\* raises, or it calls set() on the attribute of its ramp.
Plain == [k |-> "return", value |-> None, port |-> None]

\* VarPort.__init__: one VarPort_base per element of the longest of value,
\* time and init, then play().  cb records whether the set() that builds
\* the ramp was given a callback.
VarPort(value, time, init, key, cb) ==
  LET vs == convertArgsToLists(<<>>, value)
      ts == convertArgsToLists(<<>>, time)
      is == convertArgsToLists(<<>>, init)
      lmax == Max3(Len(vs), Len(ts), Len(is))
  IN [key |-> key, value |-> value, cb |-> cb, does |-> Plain,
      target |-> [i \in 1..lmax |-> wrap(<<>>, vs, i - 1)[2]],
      time |-> [i \in 1..lmax |-> wrap(<<>>, ts, i - 1)[2]],
      init |-> [i \in 1..lmax |-> wrap(<<>>, is, i - 1)[2]],
      cur |-> [i \in 1..lmax |-> wrap(<<>>, is, i - 1)[2]],
      elapsed |-> [i \in 1..lmax |-> 0],
      playing |-> [i \in 1..lmax |-> TRUE],
      fired |-> [i \in 1..lmax |-> FALSE]]

\* PyoObject.isPlaying(): the state of the first stream.
isPlaying(ramp) == ramp.playing[1]

\* PyoObject.get(True): the current value of every stream.
get(ramp) == Lst([i \in 1..Len(ramp.cur) |-> <<"n", ramp.cur[i]>>])

\* PyoObject.stop() on ramp r.
stop(rs, r) ==
  [rs EXCEPT !.ramps[r].playing = [i \in DOMAIN @ |-> FALSE]]

\* The callback stored by set(): the call that registers it names it.
Registered(rs, callback) == IF callback THEN Len(rs.ramps) + 1 ELSE NoCallback

\* The part of set() after its dictionaries are written (lines 1257-1265,
\* and 2205-2213 of PyoPVObject.set).
StartRamp(s1, key, value, port, callback) ==
  LET old == s1.signal_dict[key]
      live == old # NoRamp /\ isPlaying(s1.ramps[old])
      init == IF live THEN get(s1.ramps[old]) ELSE s1.attrs[key]
      s2 == IF live THEN stop(s1, old) ELSE s1
      new == Len(s2.ramps) + 1
  IN [s2 EXCEPT !.ramps = Append(@, VarPort(value, port, init, key, callback)),
                !.invoked = Append(@, 0),
                !.signal_dict[key] = new,
                !.attrs[key] = RampRef(new)]

\* StartRamp that leaves the previous ramp running.
StartRampNoStop(s1, key, value, port, callback) ==
  LET old == s1.signal_dict[key]
      live == old # NoRamp /\ isPlaying(s1.ramps[old])
      init == IF live THEN get(s1.ramps[old]) ELSE s1.attrs[key]
      new == Len(s1.ramps) + 1
  IN [s1 EXCEPT !.ramps = Append(@, VarPort(value, port, init, key, callback)),
                !.invoked = Append(@, 0),
                !.signal_dict[key] = new,
                !.attrs[key] = RampRef(new)]

\* set that keeps a callback that is already registered.
setKeepCallback(rs, key, value, port, callback) ==
  StartRamp([rs EXCEPT !.target_dict[key] = value,
                       !.callback_dict[key] =
                          IF @ > NoCallback THEN @
                          ELSE Registered(rs, callback)],
            key, value, port, callback)

\* set that starts from the origin of the ramp it supersedes.
setFromOrigin(rs, key, value, port, callback) ==
  LET old == rs.signal_dict[key]
      r == StartRamp([rs EXCEPT !.target_dict[key] = value,
                                !.callback_dict[key] = Registered(rs, callback)],
                     key, value, port, callback)
  IN IF old # NoRamp /\ isPlaying(rs.ramps[old])
     THEN [r EXCEPT !.ramps[Len(r.ramps)].init = rs.ramps[old].init,
                    !.ramps[Len(r.ramps)].cur = rs.ramps[old].init]
     ELSE r

\* PyoObject.set
set(rs, key, value, port, callback) ==
  StartRamp([rs EXCEPT !.target_dict[key] = value,
                       !.callback_dict[key] = Registered(rs, callback)],
            key, value, port, callback)

\* PyoPVObject.set with StartRampNoStop.
PVsetNoStop(rs, key, value, port) ==
  StartRampNoStop([rs EXCEPT !.target_dict[key] = value],
                  key, value, port, FALSE)

\* PyoPVObject.set: no callback.
PVset(rs, key, value, port) ==
  StartRamp([rs EXCEPT !.target_dict[key] = value], key, value, port, FALSE)

\* What callback cb does: the callback is named after the ramp of the
\* set() that stored it.
Does(s, cb) == IF cb <= Len(s.ramps) THEN s.ramps[cb].does ELSE Plain

\* self._callback_dict[attr](): the call of callback cb.
CallCallback(s, key, cb) ==
  LET d == Does(s, cb)
      s1 == [s EXCEPT !.invoked[cb] = @ + 1]
  IN CASE d.k = "raise" -> [s1 EXCEPT !.raised = TRUE, !.error = "Exception"]
       [] d.k = "set" -> set(s1, key, d.value, d.port, TRUE)
       [] OTHER -> s1

\* _reset_from_set calling the callback whatever the attribute holds and
\* leaving it registered.
_reset_from_setUnguarded(rs, key) ==
  LET cb == rs.callback_dict[key]
      s1 == [rs EXCEPT !.attrs[key] = rs.target_dict[key]]
      s2 == IF cb > NoCallback THEN [s1 EXCEPT !.invoked[cb] = @ + 1] ELSE s1
  IN stop(s2, rs.signal_dict[key])

\* PyoObject._reset_from_set.  Reading a deleted _callback_dict entry is a
\* KeyError, raised before the ramp is stopped; an exception of the
\* callback leaves the function before the entry is deleted.  The entry
\* deleted and the ramp stopped are those the dictionaries hold once the
\* callback has returned.
_reset_from_set(rs, key) ==
  IF IsVarPort(rs.attrs[key])
  THEN LET s1 == [rs EXCEPT !.attrs[key] = rs.target_dict[key]]
           cb == rs.callback_dict[key]
       IN IF cb = NoEntry
          THEN [s1 EXCEPT !.raised = TRUE, !.error = "KeyError"]
          ELSE IF cb # NoCallback
          THEN LET s2 == CallCallback(s1, key, cb)
               IN IF Does(s1, cb).k = "raise" THEN s2
                  ELSE stop([s2 EXCEPT !.callback_dict[key] = NoEntry],
                            s2.signal_dict[key])
          ELSE stop(s1, rs.signal_dict[key])
  ELSE stop(rs, rs.signal_dict[key])

\* PyoPVObject._reset_from_set
PV_reset_from_set(rs, key) ==
  IF IsVarPort(rs.attrs[key])
  THEN stop([rs EXCEPT !.attrs[key] = rs.target_dict[key]],
            rs.signal_dict[key])
  ELSE stop(rs, rs.signal_dict[key])

\* The value of a ramp stream e buffers after its start.
Interpolate(init, target, e, time) ==
  init + ((target - init) * e) \div time

\* One buffer of the engine: the streams of the ramps are processed in the
\* order of their creation; a stream that is playing moves one step along
\* its line and, when it reaches the end, calls its function
\* (_reset_from_set) with its argument (the attribute).  `skip` says
\* whether a stream stopped earlier in the same buffer is left out.  A
\* ramp created by a callback during the buffer starts with the next one.
RECURSIVE Process(_, _, _, _, _)
Process(rs, start, skip, r, i) ==
  IF r > Len(start) THEN rs
  ELSE IF i > Len(rs.ramps[r].target) THEN Process(rs, start, skip, r + 1, 1)
  ELSE LET rec == rs.ramps[r]
           active == start[r].playing[i] /\ (skip => rec.playing[i])
           e == rec.elapsed[i] + 1
           moved == [rs EXCEPT !.ramps[r].elapsed[i] = e,
                               !.ramps[r].cur[i] =
                                  Interpolate(rec.init[i], rec.target[i],
                                              e, rec.time[i])]
           ended == [moved EXCEPT !.ramps[r].fired[i] = TRUE]
       IN IF ~active \/ rec.elapsed[i] >= rec.time[i]
          THEN Process(rs, start, skip, r, i + 1)
          ELSE IF e < rec.time[i]
          THEN Process(moved, start, skip, r, i + 1)
          ELSE Process(IF IsPVKey(rec.key)
                       THEN PV_reset_from_set(ended, rec.key)
                       ELSE _reset_from_set(ended, rec.key),
                       start, skip, r, i + 1)

Targets == {Num(10), Lst(<<<<"n", 0>>, <<"n", 8>>>>)}
Ports == {Num(2), Lst(<<<<"n", 1>>, <<"n", 2>>>>)}

CommitRamp(op, key, value, port, n, rs) ==
  /\ attrs' = rs.attrs
  /\ target_dict' = rs.target_dict
  /\ callback_dict' = rs.callback_dict
  /\ signal_dict' = rs.signal_dict
  /\ ramps' = rs.ramps
  /\ invoked' = rs.invoked
  /\ call' = [NoCall EXCEPT !.op = op, !.self = key, !.x = value,
                            !.y = port, !.n = n]
  /\ ret' = IF rs.raised THEN Raise(0, rs.error) ELSE None
  /\ UNCHANGED <<heap, streams, nset, auxVars, stopped, pend>>

Set ==
  \E key \in Keys, value \in Targets, port \in Ports, callback \in BOOLEAN :
    /\ ~IsPVKey(key)
    /\ Len(ramps) < MaxRamps
    /\ pyoArgsAssert(<<"S", "n", "n", "C">>,
                     <<Str(key), value, port,
                       IF callback THEN [k |-> "callable", v |-> <<>>]
                       ELSE None>>) = None
    /\ CommitRamp("set", key, value, port, IF callback THEN 1 ELSE 0,
                  set(RampNow, key, value, port, callback))

PVSet ==
  \E key \in Keys, value \in Targets, port \in Ports :
    /\ IsPVKey(key)
    /\ Len(ramps) < MaxRamps
    /\ pyoArgsAssert(<<"S", "n", "n">>, <<Str(key), value, port>>) = None
    /\ CommitRamp("set", key, value, port, 0,
                  PVset(RampNow, key, value, port))

Tick ==
  \E skip \in BOOLEAN :
    /\ \E r \in 1..Len(ramps) : \E i \in DOMAIN ramps[r].playing :
         ramps[r].playing[i]
    /\ CommitRamp("tick", 0, None, None, 0,
                  Process(RampNow, ramps, skip, 1, 1))

\* No arithmetic bundle is involved.
InitRamp ==
  /\ heap = <<>>
  /\ streams = <<>>
  /\ call = NoCall
  /\ ret = None
  /\ nset = 0
  /\ RampInit
  /\ AuxInit

NextRamp == Set \/ PVSet \/ Tick

SpecRamp == InitRamp /\ [][NextRamp]_vars

\* ------------------------------------------------- values of the streams
\* A value is a fraction <<numerator, denominator>>.
RAdd2(a, b) == <<a[1] * b[2] + b[1] * a[2], a[2] * b[2]>>
RSub2(a, b) == <<a[1] * b[2] - b[1] * a[2], a[2] * b[2]>>
RMul2(a, b) == <<a[1] * b[1], a[2] * b[2]>>
RDiv2(a, b) == <<a[1] * b[2], a[2] * b[1]>>
REq(a, b) == a[1] * b[2] = b[1] * a[2]

RECURSIVE SumValues(_)
SumValues(vs) == IF vs = <<>> THEN <<0, 1>>
                 ELSE RAdd2(Head(vs), SumValues(Tail(vs)))

\* The sample an item carries: a number, or the output of a stream, which
\* is its operation on its operands followed by its own mul and add.
RECURSIVE Eval(_, _)
Eval(ss, it) ==
  IF it[1] = "n" THEN <<it[2], 1>>
  ELSE LET r == ss[it[2]]
           core == CASE r.op = "add" -> RAdd2(Eval(ss, r.l), Eval(ss, r.r))
                     [] r.op = "sub" -> RSub2(Eval(ss, r.l), Eval(ss, r.r))
                     [] r.op = "mul" -> RMul2(Eval(ss, r.l), Eval(ss, r.r))
                     [] r.op = "div" -> RDiv2(Eval(ss, r.l), Eval(ss, r.r))
                     [] r.op = "mix" ->
                          SumValues([i \in 1..Len(r.ins) |->
                                       Eval(ss, <<"s", r.ins[i]>>)])
                     [] OTHER -> Eval(ss, r.l)
           scaled == IF r.mulmode = "mul" THEN RMul2(core, Eval(ss, r.mul))
                     ELSE RDiv2(core, Eval(ss, r.mul))
       IN IF r.addmode = "add" THEN RAdd2(scaled, Eval(ss, r.add))
          ELSE RSub2(scaled, Eval(ss, r.add))

\* ------------------------------------------------------------ properties
\* Normalized length of an operand.
ArgLen(x) == IF x.k = "obj" THEN ObjLen(heap, x.v[1][2])
             ELSE IF x.k = "list" THEN Len(x.v) ELSE 1

\* Element k (from 0) of an operand; a bundle element stands for its first
\* stream.
ArgElem(x, k) ==
  IF x.k = "obj" THEN <<"s", heap[x.v[1][2]].base_objs[k + 1]>>
  ELSE LET it == x.v[k + 1]
       IN IF it[1] = "o" THEN <<"s", heap[it[2]].base_objs[1]>> ELSE it

BinaryOps == {"add", "sub", "mul", "div", "radd", "rsub", "rmul", "rdiv"}
DirectOps == {"add", "sub", "mul", "div"}

\* Stream i (from 0) of the composite just returned.
RetStream(i) == streams[heap[ret.v[1][2]].base_objs[i + 1]]

\* C1: every binary operator and every reflected form returns a composite
\* with exactly max(L_self, L_x) streams.
C1_ResultLength ==
  call.op \in BinaryOps =>
    /\ ret.k = "obj"
    /\ heap[ret.v[1][2]].cls = "Dummy"
    /\ ObjLen(heap, ret.v[1][2]) = Max2(ObjLen(heap, call.self), ArgLen(call.x))

C1_Witness ==
  /\ call.op = "rsub"
  /\ ArgLen(call.x) > ObjLen(heap, call.self)
  /\ ObjLen(heap, call.self) > 1
  /\ ObjLen(heap, ret.v[1][2]) = ArgLen(call.x)

\* C2: pairing of the streams by +, -, *, /.  With L_self >= L_x stream i
\* is self[i] OP x[(i // op_duplicate) mod L_x]; with L_x > L_self, - and /
\* give self[i mod L_self] OP x[i], and + and * with a bundle x give what
\* x OP self gives: x[i] OP self[(i // x.op_duplicate) mod L_self].
C2_Pairing ==
  call.op \in DirectOps =>
    LET me == heap[call.self]
        ls == ObjLen(heap, call.self)
        lx == ArgLen(call.x)
    IN IF ls >= lx
       THEN \A i \in 0..(ls - 1) :
              /\ RetStream(i).op = call.op
              /\ RetStream(i).l = <<"s", me.base_objs[i + 1]>>
              /\ RetStream(i).r =
                   ArgElem(call.x, (i \div me.op_duplicate) % lx)
       ELSE IF call.op \in {"sub", "div"}
       THEN \A i \in 0..(lx - 1) :
              /\ RetStream(i).op = call.op
              /\ RetStream(i).l = <<"s", me.base_objs[(i % ls) + 1]>>
              /\ RetStream(i).r = ArgElem(call.x, i)
       ELSE call.x.k = "obj" =>
              LET other == heap[call.x.v[1][2]]
              IN \A i \in 0..(lx - 1) :
                   /\ RetStream(i).op = call.op
                   /\ RetStream(i).l = <<"s", other.base_objs[i + 1]>>
                   /\ RetStream(i).r =
                        <<"s", me.base_objs[((i \div other.op_duplicate) % ls) + 1]>>

C2_Witness ==
  /\ call.op = "div"
  /\ heap[call.self].op_duplicate = 2
  /\ ArgLen(call.x) = 2
  /\ ObjLen(heap, call.self) = 2
  /\ RetStream(1).r = ArgElem(call.x, 0)

\* A composite n is the negation of bundle a: stream i is Sig(0)[0] - a[i].
IsNegOf(n, a) ==
  /\ heap[n].cls = "Dummy"
  /\ ObjLen(heap, n) = ObjLen(heap, a)
  /\ \A i \in 1..ObjLen(heap, a) :
       LET r == streams[heap[n].base_objs[i]]
       IN /\ r.op = "sub"
          /\ r.l[1] = "s"
          /\ streams[r.l[2]].op = "sig"
          /\ streams[r.l[2]].l = <<"n", 0>>
          /\ r.r = <<"s", heap[a].base_objs[i]>>

\* C8: -A has len(A) streams, stream i being 0 - A[i], and -(-A) has
\* len(A) streams whose values equal those of A.
C8_Negation ==
  call.op = "neg" =>
    /\ IsNegOf(ret.v[1][2], call.self)
    /\ \A a \in DOMAIN heap :
         IsNegOf(call.self, a) =>
           /\ ObjLen(heap, ret.v[1][2]) = ObjLen(heap, a)
           /\ \A i \in 1..ObjLen(heap, a) :
                REq(Eval(streams, <<"s", heap[ret.v[1][2]].base_objs[i]>>),
                    Eval(streams, <<"s", heap[a].base_objs[i]>>))

C8_Witness ==
  /\ call.op = "neg"
  /\ IsNegOf(call.self, 1)
  /\ ObjLen(heap, 1) = MaxLen
  /\ IsNegOf(ret.v[1][2], call.self)

CompOps == {"lt", "le", "eq", "ne", "gt", "ge"}
InPlaceOps == {"iadd", "isub", "imul", "idiv"}

C10_InPlaceFrame ==
  [][call'.op \in InPlaceOps =>
       LET o == call'.self
           onAdd == call'.op \in {"iadd", "isub"}
       IN /\ ret' = Obj(o)
          /\ Len(heap') = Len(heap)
          /\ Len(streams') = Len(streams)
          /\ \A p \in DOMAIN heap : p # o => heap'[p] = heap[p]
          /\ heap'[o].base_objs = heap[o].base_objs
          /\ heap'[o].keep_trace = heap[o].keep_trace
          /\ IF onAdd
             THEN heap'[o] = [heap[o] EXCEPT !.add = heap'[o].add]
             ELSE heap'[o] = [heap[o] EXCEPT !.mul = heap'[o].mul]
          /\ \A sid \in DOMAIN streams :
               IF onAdd
               THEN streams'[sid] =
                      [streams[sid] EXCEPT !.add = streams'[sid].add,
                                           !.addmode = streams'[sid].addmode]
               ELSE streams'[sid] =
                      [streams[sid] EXCEPT !.mul = streams'[sid].mul,
                                           !.mulmode = streams'[sid].mulmode]]_vars

C10_Witness ==
  /\ call.op = "idiv"
  /\ ret = Obj(call.self)
  /\ call.x.k = "list"
  /\ heap[call.self].mul = call.x
  /\ heap[call.self].keep_trace # <<>>
  /\ ObjLen(heap, call.self) > 1

RampIds == 1..Len(ramps)
Playing(r) == \E i \in DOMAIN ramps[r].playing : ramps[r].playing[i]
Fired(r) == \E i \in DOMAIN ramps[r].fired : ramps[r].fired[i]

\* Ramp r was replaced by a later set() on its attribute before its end.
Superseded(r) ==
  /\ ~Fired(r)
  /\ \E q \in RampIds : q > r /\ ramps[q].key = ramps[r].key

\* C3: when a ramp that was not superseded completes, the attribute is the
\* literal target and the ramp is stopped; a callback given to its set()
\* is called then, once, and is no longer registered; no callback is ever
\* called twice, however many streams the ramp has.
C3_Completion ==
  [][\A r \in RampIds :
       /\ invoked'[r] <= 1
       /\ ((~Fired(r) /\ signal_dict[ramps[r].key] = r
            /\ \E i \in DOMAIN ramps[r].fired : ramps'[r].fired[i]) =>
             /\ attrs'[ramps[r].key] = ramps[r].value
             /\ \A i \in DOMAIN ramps[r].playing : ~ramps'[r].playing[i]
             /\ ret'.k # "raise"
             /\ IF ramps[r].cb
                THEN /\ invoked[r] = 0
                     /\ invoked'[r] = 1
                     /\ callback_dict'[ramps[r].key] = NoEntry
                ELSE invoked'[r] = 0)]_vars

C3_Witness ==
  \E r \in RampIds :
    /\ ramps[r].cb
    /\ ramps[r].value.k = "list"
    /\ \A i \in DOMAIN ramps[r].fired : ramps[r].fired[i]
    /\ Len(ramps[r].fired) > 1
    /\ invoked[r] = 1
    /\ attrs[ramps[r].key] = ramps[r].value
    /\ callback_dict[ramps[r].key] = NoEntry

\* C4: a ramp replaced by a later set() before its end is stopped and the
\* callback given to its set() is never called.
C4_SupersededSilent ==
  \A r \in RampIds :
    Superseded(r) => (~Playing(r) /\ invoked[r] = 0)

C4_Witness ==
  /\ Len(ramps) >= 2
  /\ ramps[1].cb
  /\ ramps[2].cb
  /\ Superseded(1)
  /\ Fired(2)
  /\ invoked = <<0, 1>>

\* C5: the ramp built by set() starts from the literal held by the
\* attribute when no ramp of an earlier set() is playing, and from the
\* current values of that ramp when one is.
C5_RampOrigin ==
  [][Len(ramps') = Len(ramps) + 1 =>
       LET new == ramps'[Len(ramps')]
           old == signal_dict[new.key]
           from == IF old # NoRamp /\ Playing(old) THEN ramps[old].cur
                   ELSE Numbers(attrs[new.key].v)
       IN /\ (old # NoRamp /\ Playing(old)) \/ ~IsVarPort(attrs[new.key])
          /\ \A i \in DOMAIN new.init :
               new.init[i] = from[((i - 1) % Len(from)) + 1]]_vars

C5_Witness ==
  /\ Len(ramps) >= 2
  /\ ramps[1].key = ramps[2].key
  /\ ramps[1].init = <<0>>
  /\ ramps[1].target = <<10>>
  /\ ramps[1].time = <<2>>
  /\ ramps[1].elapsed = <<1>>
  /\ ramps[2].init = <<5>>

\* C6: for every bundle and attribute at most one ramp built by set() is
\* playing.
C6_OneLiveRamp ==
  \A k \in Keys :
    Cardinality({r \in RampIds : ramps[r].key = k /\ Playing(r)}) <= 1

C6_Witness ==
  \E k \in Keys :
    /\ IsPVKey(k)
    /\ Cardinality({r \in RampIds : ramps[r].key = k}) >= 2
    /\ Cardinality({r \in RampIds : ramps[r].key = k /\ Playing(r)}) = 1

\* ------------------------------------------------- stored in-place factor
\* The negation of a number or of a list of numbers.
Negated(x) == [x EXCEPT !.v = [i \in DOMAIN x.v |-> <<"n", 0 - x.v[i][2]>>]]

\* The reciprocal of a number or of a list of numbers, as exact fractions.
Reciprocal(x) == [x EXCEPT !.v = [i \in DOMAIN x.v |-> <<"q", 1, x.v[i][2]>>]]

IsNumeric(x) ==
  /\ x.k \in {"num", "list"}
  /\ \A i \in DOMAIN x.v : x.v[i][1] = "n"

\* C11: read back through a.add and a.mul, the factor stored by += and *=
\* is x itself, the one stored by -= is the negation of x and the one
\* stored by /= is the reciprocal of x.
C11_StoredFactor ==
  [][(call'.op \in InPlaceOps /\ IsNumeric(call'.x) /\ call'.x.v # <<>>) =>
       LET o == call'.self
       IN /\ call'.op = "iadd" => heap'[o].add = call'.x
          /\ call'.op = "imul" => heap'[o].mul = call'.x
          /\ call'.op = "isub" => heap'[o].add = Negated(call'.x)
          /\ call'.op = "idiv" => heap'[o].mul = Reciprocal(call'.x)]_vars

\* ------------------------------------------- successive operator calls
\* The operator method that Python calls for `op`.
Arith(op, st, self, x) ==
  CASE op = "add" -> __add__(st, self, x)
    [] op = "sub" -> __sub__(st, self, x)
    [] op = "mul" -> __mul__(st, self, x)
    [] op = "div" -> __div__(st, self, x)
    [] op = "radd" -> __radd__(st, self, x)
    [] op = "rsub" -> __rsub__(st, self, x)
    [] op = "rmul" -> __rmul__(st, self, x)
    [] op = "rdiv" -> __rdiv__(st, self, x)

CommitOp(op, self, x, st) ==
  /\ heap' = st.heap
  /\ streams' = st.streams
  /\ call' = [NoCall EXCEPT !.op = op, !.self = self, !.x = x]
  /\ ret' = Obj(st.ret)
  /\ nset' = nset + 1
  /\ UNCHANGED <<rampVars, auxVars>>

\* One of the two constructed bundles combined with a list or with the
\* other bundle.
Operate ==
  \E op \in {"add", "sub", "mul", "div", "radd", "rsub", "rmul", "rdiv"},
     self \in {1, 2} :
    \E x \in {ListOf(2), Obj(3 - self)} :
      /\ nset < MaxTraceOps
      /\ (op \in {"radd", "rsub", "rmul", "rdiv"} => x.k # "obj")
      /\ CommitOp(op, self, x, Arith(op, Now, self, x))

Negate ==
  \E self \in {1, 2} :
    /\ nset < MaxTraceOps
    /\ CommitOp("neg", self, None, __neg__(Now, self))

NextTrace == Operate \/ Negate

SpecTrace == InitComp /\ [][NextTrace]_vars

IsPrefix(s, t) ==
  /\ Len(s) <= Len(t)
  /\ \A i \in DOMAIN s : s[i] = t[i]

\* C12: the composite returned by +, -, *, / or a reflected form called on
\* self is in self._keep_trace when the operator returns, and no operation
\* removes or replaces an entry of any _keep_trace.
C12_KeepTrace ==
  [][/\ \A o \in DOMAIN heap :
          IsPrefix(heap[o].keep_trace, heap'[o].keep_trace)
     /\ call'.op \in BinaryOps =>
          \E i \in DOMAIN heap'[call'.self].keep_trace :
            heap'[call'.self].keep_trace[i] = ret'.v[1][2]]_vars

C12_Witness ==
  /\ nset = 2
  /\ call.op = "rdiv"
  /\ Len(heap[call.self].keep_trace) >= 3
  /\ heap[heap[call.self].keep_trace[1]].cls = "Dummy"
  /\ heap[call.self].keep_trace[1] # ret.v[1][2]
  /\ heap[call.self].keep_trace[Len(heap[call.self].keep_trace)] = ret.v[1][2]

\* ------------------------------------------------- server preconditions
\* Which precondition of PyoObjectBase.__init__ failed.
NotCreated == 0
NotBooted == 1

PyoServerStateException(which) ==
  [k |-> "raise", v |-> <<<<"n", which>>>>,
   expected |-> "PyoServerStateException"]

\* PyoObjectBase.__init__ testing serverBooted() before serverCreated().
PyoObjectBase__init__BootedFirst(srv) ==
  IF srv # "booted" THEN PyoServerStateException(NotBooted)
  ELSE IF srv = "none" THEN PyoServerStateException(NotCreated)
  ELSE None

\* PyoObjectBase.__init__ after `self._base_objs = []`: the two checks.
PyoObjectBase__init__(srv) ==
  IF srv = "none" THEN PyoServerStateException(NotCreated)
  ELSE IF srv # "booted" THEN PyoServerStateException(NotBooted)
  ELSE None

\* A constructor call: pyoArgsAssert passed, PyoObject.__init__ runs and
\* the rest of the constructor (`built`) follows only when it returns.
Construct(srv, st, cls, built) ==
  LET e == PyoObjectBase__init__(srv)
  IN IF e # None
     THEN [heap |-> Append(st.heap, PyoObjectInit(cls, <<>>, Num(1), Num(0))),
           streams |-> st.streams, ret |-> e]
     ELSE built

\* Server(), boot() and shutdown().
ServerCreate ==
  /\ server = "none"
  /\ server' = "created"
  /\ call' = [NoCall EXCEPT !.op = "Server"]
  /\ ret' = None
  /\ UNCHANGED <<heap, streams, nset, rampVars, checked, tables, tlog, out>>

ServerBoot ==
  /\ server = "created"
  /\ server' = "booted"
  /\ call' = [NoCall EXCEPT !.op = "boot"]
  /\ ret' = None
  /\ UNCHANGED <<heap, streams, nset, rampVars, checked, tables, tlog, out>>

ServerShutdown ==
  /\ server = "booted"
  /\ server' = "created"
  /\ call' = [NoCall EXCEPT !.op = "shutdown"]
  /\ ret' = None
  /\ UNCHANGED <<heap, streams, nset, rampVars, checked, tables, tlog, out>>

NewSig ==
  \E value \in {Num(2), ListOf(2)} :
    LET g == Sig(Now, value)
        st == Construct(server, Now, "Sig", [g EXCEPT !.ret = Obj(g.ret)])
    IN /\ Room
       /\ pyoArgsAssert(<<"O", "O", "O">>, <<value, Num(1), Num(0)>>) = None
       /\ heap' = st.heap
       /\ streams' = st.streams
       /\ call' = [NoCall EXCEPT !.op = "Sig", !.x = value]
       /\ ret' = st.ret
       /\ UNCHANGED <<nset, rampVars, auxVars>>

NewMix ==
  \E input \in Bundles(heap), voices \in 1..2 :
    LET st == Construct(server, Now, "Mix",
                        Mix(Now, input, voices, Num(1), Num(0)))
    IN /\ Room
       /\ heap[input.v[1][2]].base_objs # <<>>
       /\ pyoArgsAssert(<<"o", "I", "O", "O">>,
                        <<input, Num(voices), Num(1), Num(0)>>) = None
       /\ heap' = st.heap
       /\ streams' = st.streams
       /\ call' = [NoCall EXCEPT !.op = "Mix", !.x = input, !.n = voices]
       /\ ret' = st.ret
       /\ UNCHANGED <<nset, rampVars, auxVars>>

InitServer ==
  /\ heap = <<>>
  /\ streams = <<>>
  /\ call = NoCall
  /\ ret = None
  /\ nset = 0
  /\ RampInit
  /\ server = "none"
  /\ checked = NoCheck
  /\ tables = <<>>
  /\ tlog = <<>>
  /\ out = ""

NextServer == ServerCreate \/ ServerBoot \/ ServerShutdown \/ NewSig \/ NewMix

SpecServer == InitServer /\ [][NextServer]_vars

Constructors == {"Sig", "Mix"}

\* C13: a constructor called with valid arguments while no server exists,
\* or while the server is not booted, raises PyoServerStateException, for
\* the missing server when there is none and for the missing boot
\* otherwise, and the object is left without streams.
C13_ServerState ==
  [][(call'.op \in Constructors /\ server # "booted") =>
       /\ ret' = PyoServerStateException(IF server = "none" THEN NotCreated
                                         ELSE NotBooted)
       /\ Len(heap') = Len(heap) + 1
       /\ heap'[Len(heap')].base_objs = <<>>
       /\ streams' = streams]_vars

C13_Witness ==
  /\ call.op = "Mix"
  /\ server = "created"
  /\ ret = PyoServerStateException(NotBooted)
  /\ heap[Len(heap)].base_objs = <<>>
  /\ \E o \in DOMAIN heap : heap[o].cls = "Sig" /\ heap[o].base_objs # <<>>

\* --------------------------------------------------- invalid operands
\* A Python value that is neither a number, a list nor a bundle: a string
\* and a dictionary.
Opaque(kind, n) == [k |-> kind, v |-> <<<<"x", n>>>>]
Invalid == {Opaque("str", 0), Opaque("dict", 1)}

\* An exception raised by the engine's stream arithmetic, which is not a
\* PyoArgumentTypeError.
EngineError == [k |-> "raise", v |-> <<>>, expected |-> "TypeError"]

\* An operator called with an invalid operand.  __rsub__ and __rdiv__ hand
\* the operand to Sig(), whose pyoArgsAssert("OOO") rejects it before any
\* append to _keep_trace; the six others hand it to the arithmetic of the
\* engine's streams, which either raises its own error or builds a stream.
OperateInvalid ==
  \E op \in {"add", "sub", "mul", "div", "radd", "rsub", "rmul", "rdiv"},
     self \in {1, 2}, x \in Invalid, accepted \in BOOLEAN :
    /\ Room
    /\ IF op \in {"rsub", "rdiv"}
       THEN /\ ~accepted
            /\ ret' = pyoArgsAssert(<<"O", "O", "O">>, <<x, Num(1), Num(0)>>)
            /\ call' = [NoCall EXCEPT !.op = op, !.self = self, !.x = x]
            /\ UNCHANGED <<heap, streams, nset, rampVars, auxVars>>
       ELSE IF accepted
       THEN Commit(op, self, x, Arith(op, Now, self, x))
       ELSE /\ ret' = EngineError
            /\ call' = [NoCall EXCEPT !.op = op, !.self = self, !.x = x]
            /\ UNCHANGED <<heap, streams, nset, rampVars, auxVars>>

NextOperand == OperateInvalid

SpecOperand == InitComp /\ [][NextOperand]_vars

\* The `expected` texts of pyoArgsAssert.
Categories ==
  {"float or PyoObject", "PyoObject", "float or PyoTableObject",
   "PyoTableObject", "PyoMatrixObject", "PyoPVObject", "any number",
   "any number - list not allowed", "float", "float - list not allowed",
   "integer", "integer - list not allowed", "string",
   "string - list not allowed", "boolean", "boolean - list not allowed",
   "list", "list or None", "tuple", "list or tuple", "callable",
   "callable - list not allowed"}

IsPyoArgumentTypeError(r) == r.k = "raise" /\ r.expected \in Categories

\* C14: +, -, *, / and their reflected forms applied to a bundle and an
\* operand that is neither a number, a list nor a bundle fail with a
\* PyoArgumentTypeError naming the expected type.
C14_OperandTypeError ==
  [][(call'.op \in BinaryOps /\ call'.x \in Invalid) =>
       /\ IsPyoArgumentTypeError(ret')
       /\ ret'.expected = "float or PyoObject"]_vars

\* -------------------------------------------------------- pyoArgsAssert
\* One value of every Python type that the checks tell apart.
Kinds == {"num", "float", "list", "obj", "none", "bool", "str", "callable",
          "tuple", "table", "matrix", "pv", "dict"}
Typed(kind) == [k |-> kind, v |-> <<>>]

FormatChars == {"O", "o", "T", "t", "m", "p", "n", "N", "f", "F", "i", "I",
                "s", "S", "b", "B", "l", "L", "u", "x", "c", "C", "z"}

\* The format strings of the calls of pyoArgsAssert in _core.py.
SourceFormats ==
  {<<"B">>, <<"I">>, <<"I", "I">>, <<"N">>, <<"N", "I">>,
   <<"N", "I", "I">>, <<"N", "N">>, <<"N", "N", "N">>, <<"O">>,
   <<"O", "O", "O">>, <<"O", "O", "O", "O">>, <<"S">>, <<"S", "B">>,
   <<"S", "I", "I", "N">>, <<"S", "n", "n">>, <<"S", "n", "n", "C">>,
   <<"T">>, <<"c">>, <<"i", "I", "n", "n">>, <<"n">>, <<"n", "n">>,
   <<"n", "n", "n", "c", "z", "O", "O">>, <<"o">>, <<"o", "I", "O", "O">>,
   <<"o", "N">>, <<"o", "O", "O", "O", "O">>, <<"o", "O", "s", "O", "O">>,
   <<"s">>, <<"t", "I", "I", "I">>}

\* Every one-character format and the first characters of the others.
Formats ==
  {<<c>> : c \in FormatChars}
    \cup {SubSeq(f, 1, IF Len(f) < MaxArgs THEN Len(f) ELSE MaxArgs) :
            f \in SourceFormats}

\* The first call of pyoArgsAssert(obj, format, *args).
AssertArgs ==
  /\ checked = NoCheck
  /\ \E name \in {"Sig", "Mix"}, format \in Formats :
    \E args \in [1..Len(format) -> {Typed(kd) : kd \in Kinds}] :
      /\ checked' = [name |-> name, format |-> format, args |-> args,
                     msg |-> ErrorMessage(name, format, args)]
      /\ ret' = pyoArgsAssert(format, args)
      /\ call' = [NoCall EXCEPT !.op = "pyoArgsAssert"]
      /\ UNCHANGED <<heap, streams, nset, rampVars, server, tables, tlog, out>>

InitArgs ==
  /\ heap = <<>>
  /\ streams = <<>>
  /\ call = NoCall
  /\ ret = None
  /\ nset = 0
  /\ RampInit
  /\ AuxInit

NextArgs == AssertArgs

SpecArgs == InitArgs /\ [][NextArgs]_vars

\* The types that a format character admits: the type it names, a list
\* too for a lowercase character, None too for callables.
Admits(f) ==
  CASE f = "O" -> {"obj", "num", "float", "list"}
    [] f = "o" -> {"obj", "list"}
    [] f = "T" -> {"table", "float", "list"}
    [] f = "t" -> {"table", "list"}
    [] f = "m" -> {"matrix", "list"}
    [] f = "p" -> {"pv", "list"}
    [] f = "n" -> {"num", "float", "list"}
    [] f = "N" -> {"num", "float"}
    [] f = "f" -> {"float", "list"}
    [] f = "F" -> {"float"}
    [] f = "i" -> {"num", "list"}
    [] f = "I" -> {"num"}
    [] f = "s" -> {"str", "list"}
    [] f = "S" -> {"str"}
    [] f = "b" -> {"bool", "num", "list"}
    [] f = "B" -> {"bool", "num"}
    [] f = "l" -> {"list"}
    [] f = "L" -> {"list", "none"}
    [] f = "u" -> {"tuple"}
    [] f = "x" -> {"list", "tuple"}
    [] f = "c" -> {"callable", "list", "tuple", "none"}
    [] f = "C" -> {"callable", "none"}
    [] f = "z" -> Kinds

Offending == {i \in 1..Len(checked.args) :
                checked.args[i].k \notin Admits(checked.format[i])}

\* C15: pyoArgsAssert raises PyoArgumentTypeError exactly when the type of
\* some argument does not match its format character; the error is about
\* the first such argument and names its 0-based position, the class of
\* the receiving object, the expected category and the actual type.
C15_ArgsAssert ==
  call.op = "pyoArgsAssert" =>
    IF Offending = {}
    THEN ret = None /\ checked.msg = <<>>
    ELSE LET i == CHOOSE j \in Offending : \A n \in Offending : j <= n
         IN /\ IsPyoArgumentTypeError(ret)
            /\ Len(checked.msg) = 1
            /\ checked.msg[1].pos = i - 1
            /\ checked.msg[1].name = checked.name
            /\ checked.msg[1].got = checked.args[i].k
            /\ checked.msg[1].expected = ret.expected
            /\ ret.expected = ArgExpected(checked.format[i], checked.args[i])

C15_Witness ==
  /\ call.op = "pyoArgsAssert"
  /\ Cardinality(Offending) = 2
  /\ checked.format = <<"o", "I">>
  /\ checked.msg = <<[pos |-> 0, name |-> "Mix", expected |-> "PyoObject",
                      got |-> "float"]>>

\* ------------------------------------------------------ PyoTableObject
Flt(v) == [k |-> "float", v |-> <<<<"n", v>>>>]
Tab(t) == [k |-> "table", v |-> <<<<"t", t>>>>]
\* A list of lists of numbers.
Lsts(ls) == [k |-> "list", v |-> [i \in DOMAIN ls |-> <<"l", ls[i]>>]]

\* Sample i of buffer b of table t after construction.
Sample(t, b, i) == t * 1000 + b * 200 + i

\* A sample computed by a filter of the engine, whose value is not modelled.
Unknown == 0 - 999

\* A table bundle of n buffers of `size` samples, without frames.
PyoTableObject(t, n, size) ==
  [size |-> size,
   bufs |-> [b \in 1..n |->
               [size |-> size,
                data |-> [i \in 1..size |-> Sample(t, b, i)],
                calls |-> <<>>]],
   viewFrame |-> FALSE, graphFrame |-> FALSE]

\* The arguments of one call of a buffer's method.
NoArgs == [value |-> 0, pos |-> 0, data |-> <<>>, srcpos |-> 0,
           destpos |-> 0, length |-> 0, whole |-> FALSE]

Min2(a, b) == IF a <= b THEN a ELSE b

\* The number of samples that the engine copies.
CopyLength(ssize, dsize, a) ==
  LET room == Min2(ssize - a.srcpos, dsize - a.destpos)
  IN IF a.length < 0 THEN room ELSE Min2(a.length, room)

\* One method of a buffer of the engine.
EngineTable(op, buf, a) ==
  LET d == buf.data
      n == buf.size
      Operand(i) == IF a.whole THEN a.value
                    ELSE IF i <= Len(a.data) THEN a.data[i] ELSE 0
      new ==
        CASE op = "reset" -> [i \in 1..n |-> 0]
          [] op = "reverse" -> [i \in 1..n |-> d[n + 1 - i]]
          [] op = "invert" -> [i \in 1..n |-> 0 - d[i]]
          [] op = "rectify" -> [i \in 1..n |-> IF d[i] < 0 THEN 0 - d[i]
                                                ELSE d[i]]
          [] op = "put" -> [d EXCEPT ![a.pos + 1] = a.value]
          [] op = "setSize" -> [i \in 1..a.value |-> 0]
          [] op = "rotate" -> [i \in 1..n |-> d[((i - 1 + a.pos) % n) + 1]]
          [] op = "setData" -> a.data
          [] op = "add" -> [i \in 1..n |-> d[i] + Operand(i)]
          [] op = "sub" -> [i \in 1..n |-> d[i] - Operand(i)]
          [] op = "mul" -> [i \in 1..n |->
                              IF a.whole \/ i <= Len(a.data)
                              THEN d[i] * Operand(i) ELSE d[i]]
          [] op = "copyData" ->
               [i \in 1..n |->
                  IF /\ i > a.destpos
                     /\ i <= a.destpos + CopyLength(Len(a.data), n, a)
                  THEN a.data[a.srcpos + (i - a.destpos)]
                  ELSE d[i]]
          [] OTHER -> [i \in 1..n |-> Unknown]
  IN [size |-> Len(new), data |-> new, calls |-> Append(buf.calls, op)]

Ev(e, i) == [e |-> e, i |-> i]

\* PyoTableObject.refreshView: the updates it sends to the frames.
refreshView(tb) ==
  (IF tb.viewFrame THEN <<Ev("view", 0)>> ELSE <<>>)
    \o (IF tb.graphFrame THEN <<Ev("graph", 0)>> ELSE <<>>)

\* refreshView called before the loop over the buffers.
FinishRefreshFirst(T, t, op, as, result) ==
  LET T2 == [T EXCEPT ![t].bufs =
                 [i \in DOMAIN T[t].bufs |->
                    EngineTable(op, T[t].bufs[i], as[i])]]
  IN [tables |-> T2,
      log |-> refreshView(T[t]) \o [i \in DOMAIN T[t].bufs |-> Ev("buf", i)],
      ret |-> result, out |-> ""]

\* `[obj.op(...) for i, obj in enumerate(self._base_objs)]` followed by
\* `self.refreshView()`; as[i] holds the arguments for buffer i.
Finish(T, t, op, as, result) ==
  LET T2 == [T EXCEPT ![t].bufs =
                 [i \in DOMAIN T[t].bufs |->
                    EngineTable(op, T[t].bufs[i], as[i])]]
  IN [tables |-> T2,
      log |-> [i \in DOMAIN T[t].bufs |-> Ev("buf", i)] \o refreshView(T2[t]),
      ret |-> result, out |-> ""]

\* An exception raised before any buffer is touched.
Rejected(T, err) == [tables |-> T, log |-> <<>>, ret |-> err, out |-> ""]

Same(T, t, a) == [i \in DOMAIN T[t].bufs |-> a]

Table_normalize(T, t) == Finish(T, t, "normalize", Same(T, t, NoArgs), Tab(t))
Table_reset(T, t) == Finish(T, t, "reset", Same(T, t, NoArgs), Tab(t))
Table_removeDC(T, t) == Finish(T, t, "removeDC", Same(T, t, NoArgs), Tab(t))
Table_reverse(T, t) == Finish(T, t, "reverse", Same(T, t, NoArgs), Tab(t))
Table_invert(T, t) == Finish(T, t, "invert", Same(T, t, NoArgs), Tab(t))
Table_rectify(T, t) == Finish(T, t, "rectify", Same(T, t, NoArgs), Tab(t))

\* pow, lowpass, fadein, fadeout: pyoArgsAssert(self, "N", x), the loop,
\* refreshView, return self.
OneNumber(T, t, op, x) ==
  LET e == pyoArgsAssert(<<"N">>, <<x>>)
  IN IF e # None THEN Rejected(T, e)
     ELSE Finish(T, t, op,
                 Same(T, t, [NoArgs EXCEPT !.value = x.v[1][2]]), Tab(t))

Table_pow(T, t, exp) == OneNumber(T, t, "pow", exp)
Table_lowpass(T, t, freq) == OneNumber(T, t, "lowpass", freq)
Table_fadein(T, t, dur) == OneNumber(T, t, "fadein", dur)
Table_fadeout(T, t, dur) == OneNumber(T, t, "fadeout", dur)

Table_bipolarGain(T, t, gpos, gneg) ==
  LET e == pyoArgsAssert(<<"N", "N">>, <<gpos, gneg>>)
  IN IF e # None THEN Rejected(T, e)
     ELSE Finish(T, t, "bipolarGain",
                 Same(T, t, [NoArgs EXCEPT !.value = gpos.v[1][2],
                                           !.pos = gneg.v[1][2]]), Tab(t))

\* PyoTableObject.read; f_list is the content of the file.
Table_read(T, t, path, f_list) ==
  LET e == pyoArgsAssert(<<"S">>, <<path>>)
      f_len == Len(f_list)
  IN IF e # None THEN Rejected(T, e)
     ELSE IF f_len = 0 THEN Rejected(T, Raise(0, "ZeroDivisionError"))
     ELSE Finish(T, t, "setData",
                 [i \in DOMAIN T[t].bufs |->
                    [NoArgs EXCEPT !.data = f_list[((i - 1) % f_len) + 1]]],
                 None)

Table_setSize(T, t, size) ==
  LET e == pyoArgsAssert(<<"I">>, <<size>>)
  IN IF e # None THEN Rejected(T, e)
     ELSE Finish([T EXCEPT ![t].size = size.v[1][2]], t, "setSize",
                 Same(T, t, [NoArgs EXCEPT !.value = size.v[1][2]]), None)

Table_put(T, t, value, pos) ==
  LET e == pyoArgsAssert(<<"N", "I">>, <<value, pos>>)
  IN IF e # None THEN Rejected(T, e)
     ELSE Finish(T, t, "put",
                 Same(T, t, [NoArgs EXCEPT !.value = value.v[1][2],
                                           !.pos = pos.v[1][2]]), None)

Table_rotate(T, t, pos) ==
  LET e == pyoArgsAssert(<<"I">>, <<pos>>)
  IN IF e # None THEN Rejected(T, e)
     ELSE Finish(T, t, "rotate",
                 Same(T, t, [NoArgs EXCEPT !.pos = pos.v[1][2]]), None)

\* add, sub and mul: a list of lists is wrapped over the buffers, a flat
\* list goes to every buffer, a table gives buffer i its own i-th buffer
\* (wrapped) and a float goes to every buffer.
TableArith(T, t, op, x) ==
  LET e == pyoArgsAssert(<<"T">>, <<x>>)
      Flat(items) == [j \in DOMAIN items |-> items[j][2]]
      src == T[x.v[1][2]].bufs
  IN IF e # None THEN Rejected(T, e)
     ELSE IF x.k = "list"
     THEN IF x.v = <<>> THEN Rejected(T, Raise(0, "IndexError"))
          ELSE IF x.v[1][1] = "l"
          THEN Finish(T, t, op,
                      [i \in DOMAIN T[t].bufs |->
                         [NoArgs EXCEPT
                            !.data = x.v[((i - 1) % Len(x.v)) + 1][2]]],
                      Tab(t))
          ELSE Finish(T, t, op,
                      Same(T, t, [NoArgs EXCEPT !.data = Flat(x.v)]), Tab(t))
     ELSE IF x.k = "table"
     THEN Finish(T, t, op,
                 [i \in DOMAIN T[t].bufs |->
                    [NoArgs EXCEPT
                       !.data = src[((i - 1) % Len(src)) + 1].data]],
                 Tab(t))
     ELSE Finish(T, t, op,
                 Same(T, t, [NoArgs EXCEPT !.value = x.v[1][2],
                                           !.whole = TRUE]), Tab(t))

Table_add(T, t, x) == TableArith(T, t, "add", x)
Table_sub(T, t, x) == TableArith(T, t, "sub", x)
Table_mul(T, t, x) == TableArith(T, t, "mul", x)

\* The loop of copyData.  table[i] is None, with a printed line, once i
\* reaches len(table): the buffer's copyData then raises, the buffers
\* before it are copied and refreshView is not reached.
CopyLoop(T, t, table, srcpos, destpos, length) ==
  LET src == T[table.v[1][2]].bufs
      n == Len(T[t].bufs)
      ok == Min2(n, Len(src))
      as == [i \in 1..ok |->
               [NoArgs EXCEPT !.data = src[i].data,
                              !.srcpos = srcpos,
                              !.destpos = destpos,
                              !.length = length]]
      T2 == [T EXCEPT ![t].bufs =
                 [i \in 1..n |->
                    IF i <= ok THEN EngineTable("copyData", T[t].bufs[i], as[i])
                    ELSE T[t].bufs[i]]]
  IN IF ok = n
     THEN [tables |-> T2,
           log |-> [i \in 1..n |-> Ev("buf", i)] \o refreshView(T2[t]),
           ret |-> None, out |-> ""]
     ELSE [tables |-> T2,
           log |-> [i \in 1..ok |-> Ev("buf", i)],
           ret |-> EngineError,
           out |-> "'i' too large in slicing"]

\* copyData handing the two positions over in the wrong order.
Table_copyDataSwapped(T, t, table, srcpos, destpos, length) ==
  LET e == pyoArgsAssert(<<"t", "I", "I", "I">>,
                         <<table, srcpos, destpos, length>>)
  IN IF e # None THEN Rejected(T, e)
     ELSE CopyLoop(T, t, table, destpos.v[1][2], srcpos.v[1][2],
                   length.v[1][2])

\* PyoTableObject.copyData
Table_copyData(T, t, table, srcpos, destpos, length) ==
  LET e == pyoArgsAssert(<<"t", "I", "I", "I">>,
                         <<table, srcpos, destpos, length>>)
  IN IF e # None THEN Rejected(T, e)
     ELSE CopyLoop(T, t, table, srcpos.v[1][2], destpos.v[1][2],
                   length.v[1][2])

TableCommit(op, t, x, R) ==
  /\ nset < MaxTableOps
  /\ tables' = R.tables
  /\ tlog' = R.log
  /\ ret' = R.ret
  /\ out' = R.out
  /\ call' = [NoCall EXCEPT !.op = op, !.self = t, !.x = x]
  /\ nset' = nset + 1
  /\ UNCHANGED <<heap, streams, rampVars, server, checked>>

\* The operations are applied to table 1; table 2 is the source of
\* add, sub and copyData.
TNormalize == TableCommit("table.normalize", 1, None, Table_normalize(tables, 1))
TReset == TableCommit("table.reset", 1, None, Table_reset(tables, 1))
TRemoveDC == TableCommit("table.removeDC", 1, None, Table_removeDC(tables, 1))
TReverse == TableCommit("table.reverse", 1, None, Table_reverse(tables, 1))
TInvert == TableCommit("table.invert", 1, None, Table_invert(tables, 1))
TRectify == TableCommit("table.rectify", 1, None, Table_rectify(tables, 1))
TPow == TableCommit("table.pow", 1, Flt(2), Table_pow(tables, 1, Flt(2)))
TLowpass ==
  TableCommit("table.lowpass", 1, Flt(2), Table_lowpass(tables, 1, Flt(2)))
TFadein ==
  TableCommit("table.fadein", 1, Flt(2), Table_fadein(tables, 1, Flt(2)))
TFadeout ==
  TableCommit("table.fadeout", 1, Flt(2), Table_fadeout(tables, 1, Flt(2)))
TBipolarGain ==
  TableCommit("table.bipolarGain", 1, Flt(2),
              Table_bipolarGain(tables, 1, Flt(2), Flt(2)))
TRead ==
  \E f_list \in {<<<<5, 6>>>>, <<<<5, 6>>, <<7, 8, 9>>>>} :
    TableCommit("table.read", 1, Lsts(f_list),
                Table_read(tables, 1, Str(1), f_list))
TSetSize ==
  \E size \in 1..MaxSize :
    TableCommit("table.setSize", 1, Num(size),
                Table_setSize(tables, 1, Num(size)))
TPut ==
  \E pos \in {0, 1} :
    TableCommit("table.put", 1, Num(pos),
                Table_put(tables, 1, Flt(2), Num(pos)))
TRotate == TableCommit("table.rotate", 1, Num(1), Table_rotate(tables, 1, Num(1)))
TAdd ==
  \E x \in {Flt(2), Num(2), Lst(<<<<"n", 1>>, <<"n", 2>>>>),
            Lsts(<<<<1, 2>>, <<3, 4>>>>), Tab(2), Lst(<<>>)} :
    TableCommit("table.add", 1, x, Table_add(tables, 1, x))
TSub ==
  \E x \in {Flt(2), Tab(2)} :
    TableCommit("table.sub", 1, x, Table_sub(tables, 1, x))
TMul ==
  \E x \in {Flt(2), Lsts(<<<<1, 2>>, <<3, 4>>>>)} :
    TableCommit("table.mul", 1, x, Table_mul(tables, 1, x))
TCopyData ==
  \E srcpos \in {0, 1} :
    TableCommit("table.copyData", 1, Tab(2),
                Table_copyData(tables, 1, Tab(2), Num(srcpos), Num(0),
                               Num(0 - 1)))

\* Two tables: the first with or without a view frame and a graph frame.
InitTable ==
  \E n1 \in 1..2, n2 \in 1..2, s1 \in 2..MaxSize, s2 \in 2..MaxSize,
     view \in BOOLEAN, graph \in BOOLEAN :
    /\ heap = <<>>
    /\ streams = <<>>
    /\ call = NoCall
    /\ ret = None
    /\ nset = 0
    /\ RampInit
    /\ server = "booted"
    /\ checked = NoCheck
    /\ tables = <<[PyoTableObject(1, n1, s1) EXCEPT !.viewFrame = view,
                                                    !.graphFrame = graph],
                  PyoTableObject(2, n2, s2)>>
    /\ tlog = <<>>
    /\ out = ""

NextTable ==
  \/ TNormalize \/ TReset \/ TRemoveDC \/ TReverse \/ TInvert \/ TRectify
  \/ TPow \/ TLowpass \/ TFadein \/ TFadeout \/ TBipolarGain \/ TRead
  \/ TSetSize \/ TPut \/ TRotate \/ TAdd \/ TSub \/ TMul \/ TCopyData

SpecTable == InitTable /\ [][NextTable]_vars

MutatingOps ==
  {"table.read", "table.setSize", "table.put", "table.normalize",
   "table.reset", "table.removeDC", "table.reverse", "table.invert",
   "table.rectify", "table.pow", "table.bipolarGain", "table.lowpass",
   "table.fadein", "table.fadeout", "table.add", "table.sub", "table.mul",
   "table.copyData", "table.rotate"}

Refreshes == {i \in DOMAIN tlog : tlog[i].e \in {"view", "graph"}}

ExampleSource == 100
ExampleDest == 50
ExampleSrcPos == 10

CopySizes ==
  ((2..MaxSize) \X (2..MaxSize)) \cup {<<ExampleDest, ExampleSource>>}

\* Table 1 is the destination and table 2 the source.
InitCopy ==
  \E n1 \in 1..2, n2 \in 1..2, ss \in CopySizes :
    /\ heap = <<>>
    /\ streams = <<>>
    /\ call = NoCall
    /\ ret = None
    /\ nset = 0
    /\ RampInit
    /\ server = "booted"
    /\ checked = NoCheck
    /\ tables = <<PyoTableObject(1, n1, ss[1]), PyoTableObject(2, n2, ss[2])>>
    /\ tlog = <<>>
    /\ out = ""

\* self.copyData(table, srcpos, destpos, length) with positions inside
\* the two tables.
CopyData ==
  \E srcpos \in {0, 1, ExampleSrcPos}, destpos \in {0, 1},
     length \in {0 - 1, 1, 2} :
    LET R == Table_copyData(tables, 1, Tab(2), Num(srcpos), Num(destpos),
                            Num(length))
    IN /\ nset < MaxTableOps
       /\ srcpos < tables[2].size
       /\ destpos < tables[1].size
       /\ tables' = R.tables
       /\ tlog' = R.log
       /\ ret' = R.ret
       /\ out' = R.out
       /\ call' = [NoCall EXCEPT !.op = "table.copyData", !.self = 1,
                                 !.x = Tab(2), !.y = Num(srcpos),
                                 !.z = Num(destpos), !.n = length]
       /\ nset' = nset + 1
       /\ UNCHANGED <<heap, streams, rampVars, server, checked>>

NextCopy == CopyData

SpecCopy == InitCopy /\ [][NextCopy]_vars

\* Buffer b of the destination after the call holds `count` samples of
\* buffer b of the source, read from srcpos on and written from destpos
\* on, and is unchanged everywhere else.
CopiedExactly(b, srcpos, destpos, count) ==
  LET old == tables[1].bufs[b].data
      new == tables'[1].bufs[b].data
      src == tables[2].bufs[b].data
  IN /\ Len(new) = Len(old)
     /\ srcpos + count <= Len(src)
     /\ destpos + count <= Len(old)
     /\ \A i \in 1..Len(old) :
          new[i] = IF i > destpos /\ i <= destpos + count
                   THEN src[srcpos + (i - destpos)] ELSE old[i]

NegativeCopy ==
  /\ call'.op = "table.copyData"
  /\ call' # call
  /\ call'.n < 0
  /\ ret' = None

IsExample ==
  /\ tables[2].size = ExampleSource
  /\ tables[1].size = ExampleDest
  /\ call'.y = Num(ExampleSrcPos)
  /\ call'.z = Num(0)

Trig == Str(0)
IndexError == [k |-> "raise", v |-> <<>>, expected |-> "IndexError"]
TypeError == [k |-> "raise", v |-> <<>>, expected |-> "TypeError"]
Elem(kind, id) == [k |-> kind, v |-> <<<<"n", id>>>>]

\* PyoObjectBase.__getitem__: the outcomes of self[i].  A negative i
\* passes `i < len(self._base_objs)` and indexes the list from its end,
\* which raises below -len.  A string other than 'trig' reaches the
\* comparison with an integer, which orders the two in Python 2 and raises
\* in Python 3.
__getitem__(base_objs, i) ==
  LET n == Len(base_objs)
      v == i.v[1][2]
  IN IF i = Trig THEN {[ret |-> Elem("trig", 0), out |-> ""]}
     ELSE IF i.k = "str"
     THEN {[ret |-> None, out |-> "has no stream named"],
           [ret |-> TypeError, out |-> ""]}
     ELSE IF v < n
     THEN IF v >= 0 THEN {[ret |-> Elem("stream", base_objs[v + 1]), out |-> ""]}
          ELSE IF v >= 0 - n
          THEN {[ret |-> Elem("stream", base_objs[n + v + 1]), out |-> ""]}
          ELSE {[ret |-> IndexError, out |-> ""]}
     ELSE {[ret |-> None, out |-> "'i' too large in slicing"]}

\* PyoTableObject.getBuffer
getBuffer(tb, chnl) ==
  IF chnl < 0 \/ chnl >= Len(tb.bufs)
  THEN [ret |-> None, out |-> "chnl argument out-of-range"]
  ELSE [ret |-> Elem("buffer", chnl), out |-> ""]

Indices ==
  {Num(v) : v \in (0 - (MaxLen + 1))..(MaxLen + 1)} \cup {Trig, Str(1)}

IndexCommit(op, self, x, r) ==
  /\ ret' = r.ret
  /\ out' = r.out
  /\ call' = [NoCall EXCEPT !.op = op, !.self = self, !.x = x]
  /\ UNCHANGED <<heap, streams, nset, rampVars, server, checked, tables, tlog>>

GetItem ==
  \E self \in DOMAIN heap, i \in Indices :
    \E r \in __getitem__(heap[self].base_objs, i) :
      IndexCommit("getitem", self, i, r)

TableGetItem ==
  \E t \in DOMAIN tables, i \in Indices :
    \E r \in __getitem__([b \in DOMAIN tables[t].bufs |-> b], i) :
      IndexCommit("table.getitem", t, i, r)

GetBuffer ==
  \E t \in DOMAIN tables, chnl \in (0 - 1)..MaxLen :
    IndexCommit("table.getBuffer", t, Num(chnl), getBuffer(tables[t], chnl))

InitIndex ==
  \E sa \in Shapes, n1 \in 1..2 :
    /\ heap = Constructed(sa, <<1, 1>>).heap
    /\ streams = Constructed(sa, <<1, 1>>).streams
    /\ call = NoCall
    /\ ret = None
    /\ nset = 0
    /\ RampInit
    /\ server = "booted"
    /\ checked = NoCheck
    /\ tables = <<PyoTableObject(1, n1, 2)>>
    /\ tlog = <<>>
    /\ out = ""

NextIndex == GetItem \/ TableGetItem \/ GetBuffer

SpecIndex == InitIndex /\ [][NextIndex]_vars

IndexedLen ==
  IF call.op = "getitem" THEN Len(heap[call.self].base_objs)
  ELSE Len(tables[call.self].bufs)

NoSuchIndex ==
  \/ /\ call.op \in {"getitem", "table.getitem"}
     /\ \/ call.x.k = "str" /\ call.x # Trig
        \/ /\ call.x.k = "num"
           /\ \/ call.x.v[1][2] >= IndexedLen
              \/ call.x.v[1][2] < 0 - IndexedLen
  \/ /\ call.op = "table.getBuffer"
     /\ \/ call.x.v[1][2] < 0
        \/ call.x.v[1][2] >= IndexedLen

\* C18: indexing a bundle with an index or a name that does not exist (an
\* integer outside the range, negatives below -len included, or a string
\* other than 'trig'), or getBuffer out of range, prints a diagnostic and
\* returns None; it never raises.
C18_IndexDiagnostic ==
  NoSuchIndex => ret = None /\ out # ""

\* ----------------------------------------------------------------- stop
MaxStopRamps == 1

\* Keys 1 and 2 are attributes of bundle 1, key 3 of the PyoPVObject 2.
BundleOf(key) == IF IsPVKey(key) THEN 2 ELSE 1

\* stop() of bundle b: the trigger streams, the players and the streams of
\* the bundle are stopped.  The VarPort that set() keeps in _signal_dict
\* is none of them.
StopBundle(b) ==
  /\ stopped' = stopped \cup {b}
  /\ call' = [NoCall EXCEPT !.op = "stop", !.self = b]
  /\ ret' = Obj(b)
  /\ UNCHANGED <<heap, streams, nset, auxVars, attrs, target_dict,
                 callback_dict, signal_dict, ramps, invoked, pend>>

\* PyoObject.stop
Stop == StopBundle(1)

\* PyoPVObject.stop
PVStop == StopBundle(2)

SetBeforeStop == Len(ramps) < MaxStopRamps /\ Set
PVSetBeforeStop == Len(ramps) < MaxStopRamps /\ PVSet

NextStop == SetBeforeStop \/ PVSetBeforeStop \/ Tick \/ Stop \/ PVStop

SpecStop == InitRamp /\ [][NextStop]_vars

\* C19: stop() on a bundle cancels the live ramps that set() started on
\* its attributes: they are not playing afterwards, and the buffer that
\* follows neither invokes their callbacks nor snaps the attribute.
C19_StopCancels ==
  [][/\ call'.op = "stop" =>
          \A r \in 1..Len(ramps) :
            BundleOf(ramps[r].key) = call'.self =>
              \A i \in DOMAIN ramps'[r].playing : ~ramps'[r].playing[i]
     /\ (call.op = "stop" /\ call'.op = "tick") =>
          \A r \in 1..Len(ramps) :
            BundleOf(ramps[r].key) = call.self =>
              /\ invoked'[r] = invoked[r]
              /\ attrs'[ramps[r].key] = attrs[ramps[r].key]]_vars

\* ------------------------------------------- set(), statement by statement
MaxRaceRamps == 2

RaceCommit(key, value, port, pc, rs, p, result) ==
  /\ attrs' = rs.attrs
  /\ target_dict' = rs.target_dict
  /\ callback_dict' = rs.callback_dict
  /\ signal_dict' = rs.signal_dict
  /\ ramps' = rs.ramps
  /\ invoked' = rs.invoked
  /\ pend' = p
  /\ call' = [NoCall EXCEPT !.op = "set", !.self = key, !.x = value,
                            !.y = port, !.n = pc]
  /\ ret' = result
  /\ UNCHANGED <<heap, streams, nset, auxVars, stopped>>

\* The control thread enters set(): pyoArgsAssert (line 1254).
SetCall ==
  \E key \in {1}, value \in Targets, port \in {Num(2)}, callback \in BOOLEAN :
    /\ pend = NoPend
    /\ Len(invoked) < MaxRaceRamps
    /\ pyoArgsAssert(<<"S", "n", "n", "C">>,
                     <<Str(key), value, port,
                       IF callback THEN [k |-> "callable", v |-> <<>>]
                       ELSE None>>) = None
    /\ RaceCommit(key, value, port, 0, RampNow,
                  [NoPend EXCEPT !.pc = 1, !.key = key, !.value = value,
                                 !.port = port, !.callback = callback],
                  None)

\* The next statement of the call of set() in progress (lines 1255-1265).
\* The callback is named after the call that stores it; VarPort with a
\* VarPort as init is refused by the engine.
SetStep ==
  LET rs == RampNow
      key == pend.key
      old == signal_dict[key]
      live == old # NoRamp /\ isPlaying(ramps[old])
      new == Len(ramps) + 1
      Go(s, p) == RaceCommit(key, pend.value, pend.port, pend.pc, s, p, None)
  IN /\ pend # NoPend
     /\ CASE pend.pc = 1 ->
               Go([rs EXCEPT !.target_dict[key] = pend.value],
                  [pend EXCEPT !.pc = 2])
          [] pend.pc = 2 ->
               Go([rs EXCEPT !.callback_dict[key] =
                                IF pend.callback THEN Len(invoked) + 1
                                ELSE NoCallback,
                             !.invoked = Append(@, 0)],
                  [pend EXCEPT !.pc = 3, !.new = Len(invoked) + 1])
          [] pend.pc = 3 ->
               Go(rs, [pend EXCEPT !.pc = 4, !.init = attrs[key]])
          [] pend.pc = 4 ->
               IF live
               THEN Go(stop(rs, old),
                       [pend EXCEPT !.pc = 5, !.init = get(ramps[old])])
               ELSE Go(rs, [pend EXCEPT !.pc = 5])
          [] pend.pc = 5 ->
               IF IsVarPort(pend.init)
               THEN RaceCommit(key, pend.value, pend.port, pend.pc, rs,
                               NoPend, EngineError)
               ELSE Go([rs EXCEPT !.ramps =
                                     Append(@, VarPort(pend.value, pend.port,
                                                       pend.init, key,
                                                       pend.callback)),
                                  !.signal_dict[key] = new],
                       [pend EXCEPT !.pc = 6])
          [] OTHER ->
               Go([rs EXCEPT !.attrs[key] = RampRef(signal_dict[key])],
                  NoPend)

NextRace == SetCall \/ SetStep \/ Tick

SpecRace == InitRamp /\ [][NextRace]_vars

\* C20: a buffer processed while set(X, v2, port2, cb2) is between two of
\* its statements never snaps X to v2 and never clears cb2 before the
\* ramp of this call exists, and a callback is invoked only in a buffer
\* in which the ramp created by its own set() call completes.
C20_AtomicSet ==
  [][/\ \A c \in DOMAIN invoked :
          invoked'[c] > invoked[c] =>
            /\ c <= Len(ramps)
            /\ \E i \in DOMAIN ramps[c].fired :
                 ramps'[c].fired[i] /\ ~ramps[c].fired[i]
     /\ (call'.op = "tick" /\ pend.pc \in 2..5) =>
          /\ attrs'[pend.key] = pend.value =>
               \/ attrs[pend.key] = pend.value
               \/ \E r \in 1..Len(ramps) : ramps[r].value = pend.value
          /\ pend.pc > 2 =>
               callback_dict'[pend.key] = callback_dict[pend.key]]_vars

\* ------------------------------------------------- callbacks that act
MaxCallbackSets == 2

NestedTarget == Num(20)

\* The callbacks given to set(): one that returns, one that raises and one
\* that calls set(attr, 20, 1, cb2) on the same bundle.
Behaviours ==
  {Plain, [Plain EXCEPT !.k = "raise"],
   [k |-> "set", value |-> NestedTarget, port |-> Num(1)]}

\* self.set(attr, value, port, callback) with a callback of each kind.
SetCallback ==
  \E key \in {1}, value \in Targets, port \in {Num(1), Num(2)},
     does \in Behaviours :
    LET r == set(RampNow, key, value, port, TRUE)
    IN /\ Len(ramps) < MaxCallbackSets
       /\ pyoArgsAssert(<<"S", "n", "n", "C">>,
                        <<Str(key), value, port,
                          [k |-> "callable", v |-> <<>>]>>) = None
       /\ CommitRamp("set", key, value, port, 1,
                     [r EXCEPT !.ramps[Len(r.ramps)].does = does])

NextCallback == SetCallback \/ Tick

SpecCallback == InitRamp /\ [][NextCallback]_vars

\* Ramp r ends in this step and its callback is called.
Completes(r) ==
  /\ callback_dict[ramps[r].key] = r
  /\ IsVarPort(attrs[ramps[r].key])
  /\ invoked'[r] > invoked[r]
  /\ \E i \in DOMAIN ramps[r].fired : ramps'[r].fired[i] /\ ~ramps[r].fired[i]

\* C21: when the callback raises at the completion of its ramp, the
\* attribute holds the literal target, the ramp is stopped and the
\* callback entry is cleared.
C21_CallbackRaises ==
  [][\A r \in 1..Len(ramps) :
       (Completes(r) /\ ramps[r].does.k = "raise") =>
         /\ attrs'[ramps[r].key] = ramps[r].value
         /\ \A i \in DOMAIN ramps'[r].playing : ~ramps'[r].playing[i]
         /\ callback_dict'[ramps[r].key] = NoEntry]_vars

\* C22: when the callback of a ramp calls set() on the same attribute, the
\* ramp that this set() created is playing and its callback is registered
\* once the first callback has returned, and the completion of that ramp
\* snaps the attribute, invokes its callback once and raises nothing.
C22_NestedSet ==
  [][\A r \in 1..Len(ramps) :
       /\ (Completes(r) /\ ramps[r].does.k = "set") =>
            /\ Len(ramps') = Len(ramps) + 1
            /\ \A i \in DOMAIN ramps'[Len(ramps')].playing :
                 ramps'[Len(ramps')].playing[i]
            /\ callback_dict'[ramps[r].key] = Len(ramps')
       /\ (Completes(r) /\ ramps[r].value = NestedTarget) =>
            /\ attrs'[ramps[r].key] = NestedTarget
            /\ invoked'[r] = 1
            /\ ret'.k # "raise"]_vars

\* ------------------------------------------------------- Mix, its counts
\* The flattened inputs of the last Mix and the inputs of its voice j.
MixFlat ==
  IF call.x.k = "list" THEN FlattenInputs(heap, call.x.v)
  ELSE heap[call.x.v[1][2]].base_objs
MixVoice(j) == streams[heap[ret.v[1][2]].base_objs[j]].ins

\* C23: Mix(inputs, voices) with voices < 1 has exactly one stream, which
\* accumulates every flattened input stream, as Mix(inputs, 1) does.
C23_VoicesClamped ==
  (call.op = "mix" /\ call.n < 1) =>
    /\ ret.k = "obj"
    /\ Len(heap[ret.v[1][2]].base_objs) = 1
    /\ Len(MixVoice(1)) >= Len(MixFlat)
    /\ \A k \in 1..Len(MixFlat) : MixVoice(1)[k] = MixFlat[k]

\* C24: Mix with 1 <= voices <= input_len makes input_len accumulations,
\* whatever mul and add are: flattened input i is summed once, into voice
\* i mod voices.
C24_NumIsInputLen ==
  (call.op = "mix" /\ call.n >= 1 /\ call.n <= Len(MixFlat)) =>
    /\ ret.k = "obj"
    /\ Cardinality({jp \in (1..call.n) \X (1..(Len(MixFlat) + MaxLen)) :
                      jp[2] <= Len(MixVoice(jp[1]))}) = Len(MixFlat)
    /\ \A i \in 0..(Len(MixFlat) - 1) :
         LET ins == MixVoice((i % call.n) + 1)
         IN /\ (i \div call.n) + 1 \in DOMAIN ins
            /\ ins[(i \div call.n) + 1] = MixFlat[i + 1]

\* ----------------------------------------------------------- InputFader
\* InputFader.__init__: one InputFader_base per stream of the input.
InputFader(st, input) ==
  LET err == pyoArgsAssert(<<"o">>, <<input>>)
      in == convertArgsToLists(st.heap, input)
      lmax == Len(in)
      recs == [i \in 1..lmax |->
                 StreamRec("fader", wrap(st.heap, in, i - 1), <<"n", 0>>)]
  IN IF err # None THEN [st EXCEPT !.ret = err]
     ELSE [heap |-> Append(st.heap,
                           PyoObjectInit("InputFader",
                                         [i \in 1..lmax |-> Len(st.streams) + i],
                                         Num(1), Num(0))),
           streams |-> st.streams \o recs,
           ret |-> Obj(Len(st.heap) + 1)]

\* InputFader.setInput: stream i of the fader crossfades to wrap(x, i);
\* r holds the stream it fades from.
setInput(st, self, x, fadetime) ==
  LET err == pyoArgsAssert(<<"o", "N">>, <<x, fadetime>>)
      xs == convertArgsToLists(st.heap, x)
      objs == st.heap[self].base_objs
  IN IF err # None THEN [st EXCEPT !.ret = err]
     ELSE [st EXCEPT
             !.streams = [s \in DOMAIN st.streams |->
                            IF \E i \in DOMAIN objs : objs[i] = s
                            THEN LET i == CHOOSE j \in DOMAIN objs : objs[j] = s
                                 IN [st.streams[s] EXCEPT
                                       !.l = wrap(st.heap, xs, i - 1),
                                       !.r = st.streams[s].l]
                            ELSE st.streams[s]],
             !.ret = None]

FaderCommit(op, self, x, st) ==
  /\ heap' = st.heap
  /\ streams' = st.streams
  /\ call' = [NoCall EXCEPT !.op = op, !.self = self, !.x = x]
  /\ ret' = st.ret
  /\ UNCHANGED <<nset, rampVars, auxVars>>

NewFader ==
  \E input \in Bundles(heap) :
    /\ Room
    /\ FaderCommit("InputFader", 0, input,
                   InputFader([Now EXCEPT !.ret = None], input))

SetInput ==
  \E self \in DOMAIN heap, x \in Bundles(heap) :
    /\ heap[self].cls = "InputFader"
    /\ x # Obj(self)
    /\ FaderCommit("setInput", self, x,
                   setInput([Now EXCEPT !.ret = None], self, x, Flt(1)))

NextFader == NewFader \/ SetInput

SpecFader == Init /\ [][NextFader]_vars

\* C25: setInput(x) crossfades on max(streams of the fader, streams of x)
\* streams, stream i fading in stream i mod len(x) of x: every stream of a
\* longer x is faded in.
C25_FaderBroadcast ==
  call.op = "setInput" =>
    LET objs == heap[call.self].base_objs
        new == heap[call.x.v[1][2]].base_objs
    IN \A i \in 0..(Max2(Len(objs), Len(new)) - 1) :
         /\ i + 1 \in DOMAIN objs
         /\ streams[objs[i + 1]].l = <<"s", new[(i % Len(new)) + 1]>>

\* ------------------------------------------------------ PyoMatrixObject
\* A matrix bundle of n matrix streams, without view frame; a matrix has
\* no graph frame.
PyoMatrixObject(t, n, size) == PyoTableObject(t, n, size)

\* read, normalize, blur, boost and put of PyoMatrixObject: pyoArgsAssert,
\* then the method of every matrix stream, in order.  None of them goes
\* on to refreshView.
MatrixOp(T, t, op, format, args, as, result) ==
  LET e == pyoArgsAssert(format, args)
  IN IF e # None THEN Rejected(T, e)
     ELSE [tables |-> [T EXCEPT ![t].bufs =
                         [i \in DOMAIN T[t].bufs |->
                            EngineTable(op, T[t].bufs[i], as[i])]],
           log |-> [i \in DOMAIN T[t].bufs |-> Ev("buf", i)],
           ret |-> result, out |-> ""]

Triple(value, x, y) == Lst(<<<<"n", value>>, <<"n", x>>, <<"n", y>>>>)

MRead ==
  \E f_list \in {<<<<5, 6>>>>, <<<<5, 6>>, <<7, 8, 9>>>>} :
    TableCommit("matrix.read", 1, Lsts(f_list),
                MatrixOp(tables, 1, "setData", <<"S">>, <<Str(1)>>,
                         [i \in DOMAIN tables[1].bufs |->
                            [NoArgs EXCEPT
                               !.data = f_list[((i - 1) % Len(f_list)) + 1]]],
                         None))
MNormalize ==
  TableCommit("matrix.normalize", 1, None,
              MatrixOp(tables, 1, "matrix.normalize", <<>>, <<>>,
                       Same(tables, 1, NoArgs), Elem("matrix", 1)))
MBlur ==
  TableCommit("matrix.blur", 1, None,
              MatrixOp(tables, 1, "matrix.blur", <<>>, <<>>,
                       Same(tables, 1, NoArgs), None))
MBoost ==
  \E boost \in {Flt(1), Flt(2), Num(1), Lst(<<>>)} :
    TableCommit("matrix.boost", 1, boost,
                MatrixOp(tables, 1, "matrix.boost", <<"N", "N", "N">>,
                         <<Flt(0 - 1), Flt(1), boost>>,
                         Same(tables, 1, NoArgs), None))
MPut ==
  \E value \in {1, 2}, x \in {0, 1}, y \in {0, 1} :
    TableCommit("matrix.put", 1, Triple(value, x, y),
                MatrixOp(tables, 1, "matrix.put", <<"N", "I", "I">>,
                         <<Num(value), Num(x), Num(y)>>,
                         Same(tables, 1, [NoArgs EXCEPT !.value = value]),
                         None))

\* One matrix, with or without a view frame.
InitMatrix ==
  \E n \in 1..2, size \in 2..MaxSize, view \in BOOLEAN :
    /\ heap = <<>>
    /\ streams = <<>>
    /\ call = NoCall
    /\ ret = None
    /\ nset = 0
    /\ RampInit
    /\ server = "booted"
    /\ checked = NoCheck
    /\ tables = <<[PyoMatrixObject(1, n, size) EXCEPT !.viewFrame = view]>>
    /\ tlog = <<>>
    /\ out = ""

NextMatrix == MRead \/ MNormalize \/ MBlur \/ MBoost \/ MPut

SpecMatrix == InitMatrix /\ [][NextMatrix]_vars

MatrixOps ==
  {"matrix.read", "matrix.normalize", "matrix.blur", "matrix.boost",
   "matrix.put"}

\* C26: a mutating matrix operation that returns refreshes the attached
\* view, when there is one, as its final step.
C26_MatrixRefresh ==
  (call.op \in MatrixOps /\ ret.k # "raise" /\ tables[call.self].viewFrame) =>
    /\ tlog # <<>>
    /\ tlog[Len(tlog)] = Ev("view", 0)

\* C27: copyData on a destination with more buffers than the source wraps
\* the source: buffer i copies from source buffer i mod len(source), and
\* no buffer is handed an absent source.
C27_CopyWraps ==
  [][(/\ call'.op = "table.copyData"
      /\ call' # call
      /\ Len(tables[1].bufs) > Len(tables[2].bufs)) =>
       /\ ret' = None
       /\ out' = ""
       /\ \A b \in DOMAIN tables[1].bufs :
            tables'[1].bufs[b].data[call'.z.v[1][2] + 1]
              = tables[2].bufs[((b - 1) % Len(tables[2].bufs)) + 1]
                  .data[call'.y.v[1][2] + 1]]_vars

\* ----------------------------------------------- composites of composites
MaxDummies == 3

\* The elements a Dummy can be built from: the streams and the Dummies
\* that exist.
DummyItems ==
  {<<"s", i>> : i \in DOMAIN streams}
    \cup {<<"o", o>> : o \in {d \in DOMAIN heap : heap[d].cls = "Dummy"}}

\* Dummy(objs_list) with a list of one or two elements.
NewDummy ==
  \E objs_list \in {<<a>> : a \in DummyItems}
                     \cup {<<a, b>> : a, b \in DummyItems} :
    LET st == Dummy(Now, objs_list)
    IN /\ Cardinality({d \in DOMAIN heap : heap[d].cls = "Dummy"}) < MaxDummies
       /\ heap' = st.heap
       /\ streams' = st.streams
       /\ call' = [NoCall EXCEPT !.op = "Dummy", !.x = Lst(objs_list)]
       /\ ret' = Obj(st.ret)
       /\ UNCHANGED <<nset, rampVars, auxVars>>

\* Two source bundles, of two streams and of one.
InitDummy ==
  /\ heap = Constructed(<<2, 1>>, <<1, 1>>).heap
  /\ streams = Constructed(<<2, 1>>, <<1, 1>>).streams
  /\ call = NoCall
  /\ ret = None
  /\ nset = 0
  /\ RampInit
  /\ AuxInit

NextDummy == NewDummy

SpecDummy == InitDummy /\ [][NextDummy]_vars

\* The streams of the parts, in order, and their number.
RECURSIVE PartStreams(_)
PartStreams(items) ==
  IF items = <<>> THEN <<>>
  ELSE (IF Head(items)[1] = "o" THEN heap[Head(items)[2]].base_objs
        ELSE <<Head(items)[2]>>) \o PartStreams(Tail(items))
RECURSIVE PartCount(_)
PartCount(items) ==
  IF items = <<>> THEN 0
  ELSE (IF Head(items)[1] = "o" THEN Len(heap[Head(items)[2]].base_objs)
        ELSE 1) + PartCount(Tail(items))

\* C28: a Dummy built from a list holds, in order, the streams of the
\* Dummies of the list and its other elements: a flat list of streams as
\* long as the sum of the parts, whatever the depth of the combination.
C28_FlatComposite ==
  /\ \A d \in DOMAIN heap :
       heap[d].cls = "Dummy" =>
         \A i \in DOMAIN heap[d].base_objs :
           /\ heap[d].base_objs[i] \in DOMAIN streams
           /\ streams[heap[d].base_objs[i]].op = "src"
  /\ call.op = "Dummy" =>
       /\ heap[ret.v[1][2]].base_objs = PartStreams(call.x.v)
       /\ Len(heap[ret.v[1][2]].base_objs) = PartCount(call.x.v)

C28_Witness ==
  /\ call.op = "Dummy"
  /\ Len(heap[ret.v[1][2]].base_objs) = 4
  /\ \E i \in DOMAIN call.x.v :
       /\ call.x.v[i][1] = "o"
       /\ Len(heap[call.x.v[i][2]].base_objs) = 3

\* --------------------------------------------------- empty operand list
\* wrap(arg, i) computes i % len(arg): a ZeroDivisionError when arg is
\* empty.
wrapRaises(arg) == Len(arg) = 0

\* An operator whose empty operand list yields a composite of no stream,
\* which is appended to the trace and returned.
OperatorEmptyComposite(op, st, self, x) ==
  IF convertArgsToLists(st.heap, x) = <<>>
  THEN LET d == Dummy(st, <<>>)
           kept == KeepTrace(d, self, d.ret)
       IN [kept EXCEPT !.ret = Obj(d.ret)]
  ELSE LET d == Arith(op, st, self, x) IN [d EXCEPT !.ret = Obj(d.ret)]

\* The operator method that Python calls for `op`, with its outcome.  The
\* length of an empty list is 0, so the first branch of the eight methods
\* is taken, and its first iteration evaluates wrap(x, 0) before anything
\* is created or appended.
Operator(op, st, self, x) ==
  LET xs == convertArgsToLists(st.heap, x)
  IN IF /\ ObjLen(st.heap, self) >= Len(xs)
        /\ ObjLen(st.heap, self) > 0
        /\ wrapRaises(xs)
     THEN [st EXCEPT !.ret = Raise(0, "ZeroDivisionError")]
     ELSE LET d == Arith(op, st, self, x) IN [d EXCEPT !.ret = Obj(d.ret)]

\* One of the two constructed bundles combined with a list of numbers,
\* which may be empty.
OperateList ==
  \E op \in BinaryOps, self \in {1, 2} :
    \E x \in {Lst(<<>>), ListOf(1), ListOf(2)} :
      /\ nset < MaxTraceOps
      /\ CommitVal(op, self, x, Operator(op, Now, self, x))
      /\ nset' = nset + 1

NextEmpty == OperateList

SpecEmpty == InitComp /\ [][NextEmpty]_vars

\* C29: +, -, *, / or a reflected form applied to a bundle and an empty
\* list raises: no composite is created or returned and no _keep_trace
\* gains an entry.
C29_EmptyList ==
  [][(call'.op \in BinaryOps /\ call'.x = Lst(<<>>)) =>
       /\ ret'.k = "raise"
       /\ Len(heap') = Len(heap)
       /\ \A o \in DOMAIN heap : heap'[o].keep_trace = heap[o].keep_trace
       /\ streams' = streams]_vars

C29_Witness ==
  /\ nset = 2
  /\ call.op = "rsub"
  /\ call.x = Lst(<<>>)
  /\ ret = Raise(0, "ZeroDivisionError")
  /\ Len(heap[call.self].keep_trace) = 1
  /\ heap[heap[call.self].keep_trace[1]].cls = "Dummy"

\* ---------------------------------------------------- rejected operands
SetterOps == {"setMul", "setAdd", "setSub", "setDiv"}

\* The setter, or the in-place operator calling it, that Python runs for
\* `op`.
Setter(op, st, self, x) ==
  CASE op = "setMul" -> setMul(st, self, x)
    [] op = "setAdd" -> setAdd(st, self, x)
    [] op = "setSub" -> setSub(st, self, x)
    [] op = "setDiv" -> setDiv(st, self, x)
    [] op = "imul" -> __imul__(st, self, x)
    [] op = "iadd" -> __iadd__(st, self, x)
    [] op = "isub" -> __isub__(st, self, x)
    [] op = "idiv" -> __idiv__(st, self, x)

\* A setter or an in-place operator called on one of the two constructed
\* bundles with a string, an empty list or a number.
SetOperand ==
  \E op \in SetterOps \cup InPlaceOps, self \in {1, 2} :
    \E x \in {Opaque("str", 0), Lst(<<>>), Num(2)} :
      /\ nset <= MaxSets
      /\ CommitVal(op, self, x, Setter(op, Now, self, x))
      /\ nset' = nset + 1

NextReject == SetOperand

SpecReject == InitComp /\ [][NextReject]_vars

\* An operand that the setters do not apply: a value of a wrong type or
\* an empty list.
RejectedOperand(x) == x \in Invalid \/ x = Lst(<<>>)

\* C30: setMul, setAdd, setSub, setDiv, *=, +=, -= or /= given a rejected
\* operand raises, and the stored mul and add of the bundle and the
\* factors of its streams are what they were before the call.
C30_RejectedUnchanged ==
  [][(call'.op \in SetterOps \cup InPlaceOps /\ RejectedOperand(call'.x)) =>
       /\ ret'.k = "raise"
       /\ heap'[call'.self].mul = heap[call'.self].mul
       /\ heap'[call'.self].add = heap[call'.self].add
       /\ streams' = streams]_vars

====
